---- MODULE Spec2Model ----
(***************************************************************************)
(* State-machine model of erigon-lib/kv/iter/iter_exact.go: the KV / KVS   *)
(* stream combinators UnionKV, MergeKVS, WrapKVS, WrapKV, TransformKV2U64. *)
(* One constructor call builds a stream over leaf streams x and y; a       *)
(* consumer then calls Next on the result.  Every call the combinator      *)
(* makes on a leaf is counted in the leaf (probes = HasNext calls,         *)
(* reads = Next calls), and every result handed to the consumer is         *)
(* appended to the history out.                                            *)
(***************************************************************************)
EXTENDS Integers, Sequences, FiniteSets

\* ------------------------------------------------------------------ bounds

\* number of different keys a leaf stream may hold
NumKeys == 3
\* longest leaf stream
MaxLen == 2
\* largest positive limit passed to UnionKV / MergeKVS
MaxLimit == 2
\* consumer Next calls in one run: enough to drain both leaves and go on
MaxCalls == 2 * MaxLen + 2
\* constructors applied on top of one another when streams are nested
MaxDepth == 3

\* the blocks the optimistic store is offered
NumBlocks == 4
\* the goroutines calling the optimistic store at the same time
NumGoroutines == 2
\* the calls one goroutine makes on the store
MaxGoCalls == 2
\* the largest event ID the Bridge is handed
MaxEventID == 3
\* the fetches of one Run
MaxFetches == 3
\* the largest node number configured
MaxNodeNumber == 2

\* ------------------------------------------------------------- the state

VARIABLES
    pc,     \* "new" before the constructor call, "built" after it, "closed"
            \* after the consumer's Close
    ctor,   \* the constructor called
    kind,   \* the dynamic type of the stream the constructor returned
    args,   \* the constructor's arguments
    m,      \* the stream's fields, the leaves (with their call counts) included
    out,    \* the results of the consumer's Next calls, in order
    has,    \* the value of the consumer's latest HasNext call since its latest
            \* Next call, as a one-element sequence (<<>>: no such call yet)
    optimisticRoots,  \* optimisticStoreImpl.optimisticRoots: root -> opNode
    op,     \* the latest call on the optimistic store: its name, its argument,
            \* the map before it and what it returned
    opMutex,     \* optimisticStoreImpl.opMutex: the goroutine holding it, 0: none
    goroutines,  \* per goroutine calling the store: the call it is in, where
                 \* it is in the call, its local variables
    bridge,      \* the Bridge, where Run is, its local lastEventID, the context
                 \* and the fetches made so far
    devnet       \* the base Node and the nodes configured from it

vars == <<pc, ctor, kind, args, m, out, has, optimisticRoots, op, opMutex, goroutines,
          bridge, devnet>>

\* ------------------------------------------------------------ keys, values

\* []byte keys: 1 -> "\x01", 2 -> "\x01\x00", 3 -> "\x02", 4 -> "\x02\x00" ...
\* (a key and its extension by one byte, so that prefix order is exercised)
KeyOf(i) == IF i % 2 = 1 THEN <<(i + 1) \div 2>> ELSE <<i \div 2, 0>>

Keys == {KeyOf(i) : i \in 1..NumKeys}

\* the zero value of []byte (nil slice; equal to the empty slice for bytes.Compare)
NilBytes == <<>>

\* no error
NoErr == "nil"

Min(a, b) == IF a <= b THEN a ELSE b

RECURSIVE bytesCompare(_, _)
\* bytes.Compare: -1, 0, +1 by byte-lexicographic order, a proper prefix first
bytesCompare(a, b) ==
    IF a = <<>> /\ b = <<>> THEN 0
    ELSE IF a = <<>> THEN -1
    ELSE IF b = <<>> THEN 1
    ELSE IF Head(a) < Head(b) THEN -1
    ELSE IF Head(a) > Head(b) THEN 1
    ELSE bytesCompare(Tail(a), Tail(b))

\* ------------------------------------------------------------ leaf streams

\* key sequences of at most MaxLen keys, ascending (not strictly): what the
\* storage engine is required to supply
SortedKeySeqs ==
    {ks \in UNION {[1..n -> Keys] : n \in 0..MaxLen} :
        \A i \in 1..(Len(ks) - 1) : bytesCompare(ks[i], ks[i + 1]) <= 0}

\* A leaf stream object: its elements, the error it raises after them
\* ("nil": none), and how often HasNext (probes), Next (reads) and Close
\* (closes) were called on it; closer tells whether it has a Close method.
\* The i-th element of leaf x carries value <<10+i>> and step i, the i-th
\* element of leaf y value <<20+i>>.
LeafX(ks, e) ==
    [kind |-> "leaf", nil |-> FALSE,
     items |-> [i \in 1..Len(ks) |-> [k |-> ks[i], v |-> <<10 + i>>, s |-> i]],
     fail |-> e, reads |-> 0, probes |-> 0, closer |-> TRUE, closes |-> 0]

LeafY(ks, e) ==
    [kind |-> "leaf", nil |-> FALSE,
     items |-> [i \in 1..Len(ks) |-> [k |-> ks[i], v |-> <<20 + i>>, s |-> 0]],
     fail |-> e, reads |-> 0, probes |-> 0, closer |-> TRUE, closes |-> 0]

\* the nil interface value passed for an absent input
NilStream ==
    [kind |-> "leaf", nil |-> TRUE, items |-> <<>>, fail |-> NoErr,
     reads |-> 0, probes |-> 0, closer |-> FALSE, closes |-> 0]

XStreams == {LeafX(ks, e) : ks \in SortedKeySeqs, e \in {NoErr, "ErrX"}}
YStreams == {LeafY(ks, e) : ks \in SortedKeySeqs, e \in {NoErr, "ErrY"}}

Limits == {-1} \cup (0..MaxLimit)

\* A child may also be a stream built by a constructor of this file: it is
\* then held as [kind, it], it the fields of the stream, with the same call
\* counters as a leaf, and a call on it is dispatched on its dynamic type.
RECURSIVE HasNext(_, _), NextCall(_, _), CloseCall(_, _)

\* HasNext of a child.  Of a leaf: an unread element, or its error pending
LeafHasNext(l) ==
    IF l.kind = "leaf" THEN l.reads < Len(l.items) \/ l.fail # NoErr
    ELSE HasNext(l.kind, l.it)

\* the child after one HasNext call on it
Probed(l) == [l EXCEPT !.probes = @ + 1]

\* a Next call on child l whose own fields it the call r has worked on
Counted(l, r) ==
    [m |-> [l EXCEPT !.it = r.m, !.reads = @ + 1],
     k |-> r.k, v |-> r.v, s |-> r.s, err |-> r.err]

\* One Next call on a child: what it returns, and in m the child after it.
\* Of a leaf: its next element, or zero values and its error
LeafNext(l) ==
    IF l.kind = "leaf"
    THEN IF l.reads < Len(l.items)
         THEN [m |-> [l EXCEPT !.reads = @ + 1],
               k |-> l.items[l.reads + 1].k, v |-> l.items[l.reads + 1].v,
               s |-> l.items[l.reads + 1].s, err |-> NoErr]
         ELSE [m |-> [l EXCEPT !.reads = @ + 1],
               k |-> NilBytes, v |-> NilBytes, s |-> 0, err |-> l.fail]
    ELSE Counted(l, NextCall(l.kind, l.it))

\* the child after one Next call on it
Pulled(l) == LeafNext(l).m

\* m.xHasNext = m.x.HasNext(), h the value returned
ProbeX(s, h) == [s EXCEPT !.xHasNext = h, !.x = Probed(@)]

\* m.yHasNext = m.y.HasNext(), h the value returned
ProbeY(s, h) == [s EXCEPT !.yHasNext = h, !.y = Probed(@)]

\* m.xNextK, m.xNextV, m.err = m.x.Next(), r the values returned
PullX(s, r) == [s EXCEPT !.xNextK = r.k, !.xNextV = r.v, !.err = r.err, !.x = r.m]

\* m.xNextK, m.xNextV, m.xStep, m.err = m.x.Next(), r the values returned
PullXS(s, r) ==
    [s EXCEPT !.xNextK = r.k, !.xNextV = r.v, !.xStep = r.s, !.err = r.err, !.x = r.m]

\* m.yNextK, m.yNextV, m.err = m.y.Next(), r the values returned
PullY(s, r) == [s EXCEPT !.yNextK = r.k, !.yNextV = r.v, !.err = r.err, !.y = r.m]

\* the child after the type assertion m.x.(Closer) and, when it holds, one
\* Close call on it
Closed(l) ==
    IF ~l.closer THEN l
    ELSE IF l.kind = "leaf" THEN [l EXCEPT !.closes = @ + 1]
    ELSE [l EXCEPT !.it = CloseCall(l.kind, l.it), !.closes = @ + 1]

\* --------------------------------------------------------------- the heap

\* All fields of UnionKVIter / MergedKV / WrapKVSIter / WrapKVIter /
\* TransformKV2U64Iter in one record; a type leaves the fields it does not
\* have at their zero value.
ZeroIter ==
    [x |-> NilStream, y |-> NilStream,
     xHasNext |-> FALSE, yHasNext |-> FALSE,
     xNextK |-> NilBytes, xNextV |-> NilBytes,
     yNextK |-> NilBytes, yNextV |-> NilBytes,
     xStep |-> 0, limit |-> 0, err |-> NoErr, tf |-> NilBytes]

\* ----------------------------------------------------------- UnionKVIter

\* mutant: a latched error is not looked at
UnionKVIter_HasNext_errless(s) ==
    (s.limit # 0 /\ s.xHasNext) \/ (s.limit # 0 /\ s.yHasNext)

\* mutant: the limit is not looked at on the side of y
UnionKVIter_HasNext_yUnlimited(s) ==
    s.err # NoErr \/ (s.limit # 0 /\ s.xHasNext) \/ s.yHasNext

UnionKVIter_HasNext(s) ==
    s.err # NoErr \/ (s.limit # 0 /\ s.xHasNext) \/ (s.limit # 0 /\ s.yHasNext)

\* mutant: x is read two elements ahead
UnionKVIter_advanceX_twice(s) ==
    IF s.err # NoErr THEN s
    ELSE IF LeafHasNext(s.x)
         THEN PullX(ProbeX(s, TRUE), LeafNext(Pulled(Probed(s.x))))
         ELSE ProbeX(s, FALSE)

UnionKVIter_advanceX(s) ==
    IF s.err # NoErr THEN s
    ELSE IF LeafHasNext(s.x)
         THEN PullX(ProbeX(s, TRUE), LeafNext(Probed(s.x)))
         ELSE ProbeX(s, FALSE)

\* mutant: y is advanced also when an error is latched
UnionKVIter_advanceY_unguarded(s) ==
    IF LeafHasNext(s.y)
    THEN PullY(ProbeY(s, TRUE), LeafNext(Probed(s.y)))
    ELSE ProbeY(s, FALSE)

UnionKVIter_advanceY(s) ==
    IF s.err # NoErr THEN s
    ELSE IF LeafHasNext(s.y)
         THEN PullY(ProbeY(s, TRUE), LeafNext(Probed(s.y)))
         ELSE ProbeY(s, FALSE)

\* the result of a Next call: the stream after it and the values returned
Ret(s, k, v, st, e) == [m |-> s, k |-> k, v |-> v, s |-> st, u |-> 0, err |-> e]

\* mutant: on equal keys the pair of y is emitted instead of the pair of x
UnionKVIter_Next_emitsY(s) ==
    IF s.err # NoErr THEN Ret(s, NilBytes, NilBytes, 0, s.err)
    ELSE LET s1 == [s EXCEPT !.limit = @ - 1]
         IN IF s1.xHasNext /\ s1.yHasNext
            THEN LET cmp == bytesCompare(s1.xNextK, s1.yNextK)
                 IN IF cmp < 0
                    THEN Ret(UnionKVIter_advanceX(s1), s1.xNextK, s1.xNextV, 0, s1.err)
                    ELSE IF cmp = 0
                    THEN Ret(UnionKVIter_advanceY(UnionKVIter_advanceX(s1)),
                             s1.yNextK, s1.yNextV, 0, s1.err)
                    ELSE Ret(UnionKVIter_advanceY(s1), s1.yNextK, s1.yNextV, 0, s1.err)
            ELSE IF s1.xHasNext
            THEN Ret(UnionKVIter_advanceX(s1), s1.xNextK, s1.xNextV, 0, s1.err)
            ELSE Ret(UnionKVIter_advanceY(s1), s1.yNextK, s1.yNextV, 0, s1.err)

\* mutant: on equal keys only x is advanced, the pair of y stays buffered
UnionKVIter_Next_keepsY(s) ==
    IF s.err # NoErr THEN Ret(s, NilBytes, NilBytes, 0, s.err)
    ELSE LET s1 == [s EXCEPT !.limit = @ - 1]
         IN IF s1.xHasNext /\ s1.yHasNext
            THEN LET cmp == bytesCompare(s1.xNextK, s1.yNextK)
                 IN IF cmp <= 0
                    THEN Ret(UnionKVIter_advanceX(s1), s1.xNextK, s1.xNextV, 0, s1.err)
                    ELSE Ret(UnionKVIter_advanceY(s1), s1.yNextK, s1.yNextV, 0, s1.err)
            ELSE IF s1.xHasNext
            THEN Ret(UnionKVIter_advanceX(s1), s1.xNextK, s1.xNextV, 0, s1.err)
            ELSE Ret(UnionKVIter_advanceY(s1), s1.yNextK, s1.yNextV, 0, s1.err)

UnionKVIter_Next(s) ==
    IF s.err # NoErr THEN Ret(s, NilBytes, NilBytes, 0, s.err)
    ELSE LET s1 == [s EXCEPT !.limit = @ - 1]
         IN IF s1.xHasNext /\ s1.yHasNext
            THEN LET cmp == bytesCompare(s1.xNextK, s1.yNextK)
                 IN IF cmp < 0
                    THEN Ret(UnionKVIter_advanceX(s1), s1.xNextK, s1.xNextV, 0, s1.err)
                    ELSE IF cmp = 0
                    THEN Ret(UnionKVIter_advanceY(UnionKVIter_advanceX(s1)),
                             s1.xNextK, s1.xNextV, 0, s1.err)
                    ELSE Ret(UnionKVIter_advanceY(s1), s1.yNextK, s1.yNextV, 0, s1.err)
            ELSE IF s1.xHasNext
            THEN Ret(UnionKVIter_advanceX(s1), s1.xNextK, s1.xNextV, 0, s1.err)
            ELSE Ret(UnionKVIter_advanceY(s1), s1.yNextK, s1.yNextV, 0, s1.err)

\* mutant: Close is forwarded to x only
UnionKVIter_Close_onlyX(s) == [s EXCEPT !.x = Closed(@)]

UnionKVIter_Close(s) == [s EXCEPT !.x = Closed(@), !.y = Closed(@)]

\* -------------------------------------------------------------- MergedKV

\* mutant: the limit is not looked at on the side of x
MergedKV_HasNext_xUnlimited(s) ==
    s.err # NoErr \/ s.xHasNext \/ (s.limit # 0 /\ s.yHasNext)

MergedKV_HasNext(s) ==
    s.err # NoErr \/ (s.limit # 0 /\ s.xHasNext) \/ (s.limit # 0 /\ s.yHasNext)

MergedKV_advanceX(s) ==
    IF s.err # NoErr THEN s
    ELSE IF LeafHasNext(s.x)
         THEN PullXS(ProbeX(s, TRUE), LeafNext(Probed(s.x)))
         ELSE ProbeX(s, FALSE)

MergedKV_advanceY(s) ==
    IF s.err # NoErr THEN s
    ELSE IF LeafHasNext(s.y)
         THEN PullY(ProbeY(s, TRUE), LeafNext(Probed(s.y)))
         ELSE ProbeY(s, FALSE)

\* mutant: on equal keys the pair of y is emitted before the triple of x
MergedKV_Next_yFirst(s) ==
    IF s.err # NoErr THEN Ret(s, NilBytes, NilBytes, 0, s.err)
    ELSE LET s1 == [s EXCEPT !.limit = @ - 1]
         IN IF s1.xHasNext /\ s1.yHasNext
            THEN LET cmp == bytesCompare(s1.xNextK, s1.yNextK)
                 IN IF cmp < 0
                    THEN Ret(MergedKV_advanceX(s1), s1.xNextK, s1.xNextV, s1.xStep, s1.err)
                    ELSE Ret(MergedKV_advanceY(s1), s1.yNextK, s1.yNextV, 0, s1.err)
            ELSE IF s1.xHasNext
            THEN Ret(MergedKV_advanceX(s1), s1.xNextK, s1.xNextV, s1.xStep, s1.err)
            ELSE Ret(MergedKV_advanceY(s1), s1.yNextK, s1.yNextV, 0, s1.err)

\* mutant: the comparison is taken the wrong way round
MergedKV_Next_inverted(s) ==
    IF s.err # NoErr THEN Ret(s, NilBytes, NilBytes, 0, s.err)
    ELSE LET s1 == [s EXCEPT !.limit = @ - 1]
         IN IF s1.xHasNext /\ s1.yHasNext
            THEN LET cmp == bytesCompare(s1.yNextK, s1.xNextK)
                 IN IF cmp <= 0
                    THEN Ret(MergedKV_advanceX(s1), s1.xNextK, s1.xNextV, s1.xStep, s1.err)
                    ELSE Ret(MergedKV_advanceY(s1), s1.yNextK, s1.yNextV, 0, s1.err)
            ELSE IF s1.xHasNext
            THEN Ret(MergedKV_advanceX(s1), s1.xNextK, s1.xNextV, s1.xStep, s1.err)
            ELSE Ret(MergedKV_advanceY(s1), s1.yNextK, s1.yNextV, 0, s1.err)

\* mutant: on equal keys both children are advanced
MergedKV_Next_both(s) ==
    IF s.err # NoErr THEN Ret(s, NilBytes, NilBytes, 0, s.err)
    ELSE LET s1 == [s EXCEPT !.limit = @ - 1]
         IN IF s1.xHasNext /\ s1.yHasNext
            THEN LET cmp == bytesCompare(s1.xNextK, s1.yNextK)
                 IN IF cmp < 0
                    THEN Ret(MergedKV_advanceX(s1), s1.xNextK, s1.xNextV, s1.xStep, s1.err)
                    ELSE IF cmp = 0
                    THEN Ret(MergedKV_advanceY(MergedKV_advanceX(s1)),
                             s1.xNextK, s1.xNextV, s1.xStep, s1.err)
                    ELSE Ret(MergedKV_advanceY(s1), s1.yNextK, s1.yNextV, 0, s1.err)
            ELSE IF s1.xHasNext
            THEN Ret(MergedKV_advanceX(s1), s1.xNextK, s1.xNextV, s1.xStep, s1.err)
            ELSE Ret(MergedKV_advanceY(s1), s1.yNextK, s1.yNextV, 0, s1.err)

MergedKV_Next(s) ==
    IF s.err # NoErr THEN Ret(s, NilBytes, NilBytes, 0, s.err)
    ELSE LET s1 == [s EXCEPT !.limit = @ - 1]
         IN IF s1.xHasNext /\ s1.yHasNext
            THEN LET cmp == bytesCompare(s1.xNextK, s1.yNextK)
                 IN IF cmp <= 0
                    THEN Ret(MergedKV_advanceX(s1), s1.xNextK, s1.xNextV, s1.xStep, s1.err)
                    ELSE Ret(MergedKV_advanceY(s1), s1.yNextK, s1.yNextV, 0, s1.err)
            ELSE IF s1.xHasNext
            THEN Ret(MergedKV_advanceX(s1), s1.xNextK, s1.xNextV, s1.xStep, s1.err)
            ELSE Ret(MergedKV_advanceY(s1), s1.yNextK, s1.yNextV, 0, s1.err)

MergedKV_Close(s) == [s EXCEPT !.x = Closed(@), !.y = Closed(@)]

\* ----------------------------------------------------------- WrapKVSIter

WrapKVSIter_HasNext(s) == s.err # NoErr \/ s.yHasNext

WrapKVSIter_advance(s) ==
    IF s.err # NoErr THEN s
    ELSE IF LeafHasNext(s.y)
         THEN PullY(ProbeY(s, TRUE), LeafNext(Probed(s.y)))
         ELSE ProbeY(s, FALSE)

\* mutant: the step returned is 1
WrapKVSIter_Next_stepOne(s) ==
    IF s.err # NoErr THEN Ret(s, NilBytes, NilBytes, 0, s.err)
    ELSE Ret(WrapKVSIter_advance(s), s.yNextK, s.yNextV, 1, s.err)

WrapKVSIter_Next(s) ==
    IF s.err # NoErr THEN Ret(s, NilBytes, NilBytes, 0, s.err)
    ELSE Ret(WrapKVSIter_advance(s), s.yNextK, s.yNextV, 0, s.err)

WrapKVSIter_Close(s) == [s EXCEPT !.y = Closed(@)]

\* ------------------------------------------------------------ WrapKVIter

WrapKVIter_HasNext(s) == s.err # NoErr \/ s.xHasNext

WrapKVIter_advance(s) ==
    IF s.err # NoErr THEN s
    ELSE IF LeafHasNext(s.x)
         THEN PullX(ProbeX(s, TRUE), LeafNext(Probed(s.x)))
         ELSE ProbeX(s, FALSE)

WrapKVIter_Next(s) ==
    IF s.err # NoErr THEN Ret(s, NilBytes, NilBytes, 0, s.err)
    ELSE Ret(WrapKVIter_advance(s), s.xNextK, s.xNextV, 0, s.err)

WrapKVIter_Close(s) == [s EXCEPT !.x = Closed(@)]

\* --------------------------------------------------- TransformKV2U64Iter

\* The mapping function handed to TransformKV2U64: it decodes the value's
\* byte and fails on the key tf (no key when tf is the nil key).
transform(tf, k, v) ==
    IF tf # NilBytes /\ k = tf THEN [u |-> 0, err |-> "ErrT"]
    ELSE [u |-> IF v = <<>> THEN 0 ELSE v[1], err |-> NoErr]

\* HasNext: return m.it.HasNext(), one HasNext call on the child (held in
\* x) per call; m the stream after the call, b the value returned
TransformKV2U64Iter_HasNext(s) ==
    [m |-> [s EXCEPT !.x = Probed(@)], b |-> LeafHasNext(s.x)]

\* Next after k, v, err := m.it.Next(), r the values returned
TransformKV2U64Iter_mapped(s, r) ==
    IF r.err # NoErr
    THEN [m |-> [s EXCEPT !.x = r.m], k |-> NilBytes, v |-> NilBytes, s |-> 0,
          u |-> 0, err |-> r.err]
    ELSE [m |-> [s EXCEPT !.x = r.m], k |-> NilBytes, v |-> NilBytes, s |-> 0,
          u |-> transform(s.tf, r.k, r.v).u, err |-> transform(s.tf, r.k, r.v).err]

TransformKV2U64Iter_Next(s) == TransformKV2U64Iter_mapped(s, LeafNext(s.x))

TransformKV2U64Iter_Close(s) == [s EXCEPT !.x = Closed(@)]

\* ------------------------------------------------ what the consumer sees

\* EmptyKV / EmptyKVS (Empty2, Empty3: defined outside this file): HasNext
\* is always false
Empty_HasNext == FALSE

\* HasNext of the stream the constructor returned
HasNext(kd, s) ==
    CASE kd = "UnionKVIter" -> UnionKVIter_HasNext(s)
      [] kd = "MergedKV" -> MergedKV_HasNext(s)
      [] kd = "WrapKVSIter" -> WrapKVSIter_HasNext(s)
      [] kd = "WrapKVIter" -> WrapKVIter_HasNext(s)
      [] kd = "TransformKV2U64Iter" -> TransformKV2U64Iter_HasNext(s).b
      [] kd = "leafX" -> LeafHasNext(s.x)
      [] kd = "leafY" -> LeafHasNext(s.y)
      [] kd \in {"EmptyKV", "EmptyKVS"} -> Empty_HasNext
      [] OTHER -> FALSE

\* EmptyKV / EmptyKVS: Next returns zero values and no error
Empty_Next(s) == Ret(s, NilBytes, NilBytes, 0, NoErr)

\* Next of the input x (y) a constructor returned as it is, r the values
\* the input's Next returns
InputX_Next(s, r) ==
    [m |-> [s EXCEPT !.x = r.m], k |-> r.k, v |-> r.v, s |-> r.s, u |-> 0, err |-> r.err]

InputY_Next(s, r) ==
    [m |-> [s EXCEPT !.y = r.m], k |-> r.k, v |-> r.v, s |-> r.s, u |-> 0, err |-> r.err]

\* Next of a stream of dynamic type kd (leafX, leafY: the input x, y
\* returned as it is)
NextCall(kd, s) ==
    CASE kd = "UnionKVIter" -> UnionKVIter_Next(s)
      [] kd = "MergedKV" -> MergedKV_Next(s)
      [] kd = "WrapKVSIter" -> WrapKVSIter_Next(s)
      [] kd = "WrapKVIter" -> WrapKVIter_Next(s)
      [] kd = "TransformKV2U64Iter" -> TransformKV2U64Iter_Next(s)
      [] kd = "leafX" -> InputX_Next(s, LeafNext(s.x))
      [] kd = "leafY" -> InputY_Next(s, LeafNext(s.y))
      [] OTHER -> Empty_Next(s)

\* Close of a stream of dynamic type kd that has a Close method
CloseCall(kd, s) ==
    CASE kd = "UnionKVIter" -> UnionKVIter_Close(s)
      [] kd = "MergedKV" -> MergedKV_Close(s)
      [] kd = "WrapKVSIter" -> WrapKVSIter_Close(s)
      [] kd = "WrapKVIter" -> WrapKVIter_Close(s)
      [] kd = "TransformKV2U64Iter" -> TransformKV2U64Iter_Close(s)
      [] kd = "leafX" -> [s EXCEPT !.x = Closed(@)]
      [] kd = "leafY" -> [s EXCEPT !.y = Closed(@)]
      [] OTHER -> s

\* HasNext and Next calls made on the leaves so far
ChildCalls(s) == s.x.reads + s.x.probes + s.y.reads + s.y.probes

\* the error a Next call on a leaf has returned so far ("nil": none has)
ChildErr(s) ==
    IF s.x.fail # NoErr /\ s.x.reads > Len(s.x.items) THEN s.x.fail
    ELSE IF s.y.fail # NoErr /\ s.y.reads > Len(s.y.items) THEN s.y.fail
    ELSE NoErr

\* the record of one consumer Next call: what it returned, whether HasNext
\* was true when it was made, and the leaves' call counts around it
Entry(kd, s, r) ==
    [k |-> r.k, v |-> r.v, s |-> r.s, u |-> r.u, err |-> r.err,
     ok |-> HasNext(kd, s),
     errBefore |-> ChildErr(s),
     callsBefore |-> ChildCalls(s), callsAfter |-> ChildCalls(r.m),
     xReads |-> r.m.x.reads, yReads |-> r.m.y.reads]

\* the four types of this file that buffer a lookahead element
Composite == {"UnionKVIter", "MergedKV", "WrapKVSIter", "WrapKVIter"}

\* the types of this file that have a Close method
Closers == Composite \cup {"TransformKV2U64Iter"}

\* mutant: HasNext looks at the children when it is called (no lookahead kept)
HasNextCall_peeking(kd, s) ==
    [m |-> [s EXCEPT !.x = IF @.nil THEN @ ELSE Probed(@),
                     !.y = IF @.nil THEN @ ELSE Probed(@)],
     b |-> HasNext(kd, s)]

\* mutant: HasNext hands the latched error over and forgets it
HasNextCall_clearing(kd, s) ==
    [m |-> [s EXCEPT !.err = NoErr], b |-> HasNext(kd, s)]

\* One HasNext call on a stream: the stream after it and the value it
\* returns.  On the four composite types the method assigns no field and
\* calls no child; on TransformKV2U64Iter it calls the child's HasNext.
HasNextCall(kd, s) ==
    IF kd = "TransformKV2U64Iter" THEN TransformKV2U64Iter_HasNext(s)
    ELSE [m |-> s, b |-> HasNext(kd, s)]

\* -------------------------------------------------------- the constructors

\* a constructor's result: the dynamic type of the stream returned, and its fields
Built(kd, s) == [kind |-> kd, m |-> s]

\* mutant: an absent input is replaced by an empty one and the limit applied
UnionKV_truncating(x, y, limit) ==
    IF x.nil /\ y.nil THEN Built("EmptyKV", ZeroIter)
    ELSE Built("UnionKVIter",
               UnionKVIter_advanceY(UnionKVIter_advanceX(
                   [ZeroIter EXCEPT !.x = x, !.y = y, !.limit = limit])))

UnionKV(x, y, limit) ==
    IF x.nil /\ y.nil THEN Built("EmptyKV", ZeroIter)
    ELSE IF x.nil THEN Built("leafY", [ZeroIter EXCEPT !.y = y])
    ELSE IF y.nil THEN Built("leafX", [ZeroIter EXCEPT !.x = x])
    ELSE Built("UnionKVIter",
               UnionKVIter_advanceY(UnionKVIter_advanceX(
                   [ZeroIter EXCEPT !.x = x, !.y = y, !.limit = limit])))

WrapKVS(y) ==
    IF y.nil THEN Built("EmptyKVS", ZeroIter)
    ELSE Built("WrapKVSIter", WrapKVSIter_advance([ZeroIter EXCEPT !.y = y]))

WrapKV(x) ==
    IF x.nil THEN Built("EmptyKV", ZeroIter)
    ELSE Built("WrapKVIter", WrapKVIter_advance([ZeroIter EXCEPT !.x = x]))

\* mutant: an absent y is replaced by an empty one, x is wrapped
MergeKVS_wrapping(x, y, limit) ==
    IF x.nil /\ y.nil THEN Built("EmptyKVS", ZeroIter)
    ELSE IF x.nil THEN WrapKVS(y)
    ELSE Built("MergedKV",
               MergedKV_advanceY(MergedKV_advanceX(
                   [ZeroIter EXCEPT !.x = x, !.y = y, !.limit = limit])))

MergeKVS(x, y, limit) ==
    IF x.nil /\ y.nil THEN Built("EmptyKVS", ZeroIter)
    ELSE IF x.nil THEN WrapKVS(y)
    ELSE IF y.nil THEN Built("leafX", [ZeroIter EXCEPT !.x = x])
    ELSE Built("MergedKV",
               MergedKV_advanceY(MergedKV_advanceX(
                   [ZeroIter EXCEPT !.x = x, !.y = y, !.limit = limit])))

\* the stream it is held in field x, the key the mapping fails on in tf
TransformKV2U64(it, tf) ==
    Built("TransformKV2U64Iter", [ZeroIter EXCEPT !.x = it, !.tf = tf])

\* ------------------------------------------------- the optimistic store

\* common.Hash: the zero hash, the roots of the blocks, the roots of their
\* states; a block's hash is the number of the block, its parent's the half
\* of it (block 1 hangs below a block outside the store), and no state root
\* is the hash of a block
ZeroHash == 0

Block(i) == [HashSSZ |-> i, ParentRoot |-> i \div 2, StateRoot |-> NumBlocks + i]

Blocks == {Block(i) : i \in 1..NumBlocks}

Hashes == 0..(2 * NumBlocks)

NewOptimisticStore == <<>>

NoOp == [name |-> "none", block |-> Block(1), root |-> ZeroHash,
         before |-> NewOptimisticStore, ret |-> FALSE]

\* delete(impl.optimisticRoots, root)
Deleted(roots, root) == [r \in DOMAIN roots \ {root} |-> roots[r]]

\* impl.optimisticRoots[root] = node
Stored(roots, root, node) ==
    [r \in DOMAIN roots \cup {root} |-> IF r = root THEN node ELSE roots[r]]

\* mutant: a block already in the store is stored and linked again
AddOptimisticCandidate_relinking(roots, block) ==
    LET root == block.HashSSZ
        parentRoot == block.ParentRoot
        added == Stored(roots, root, [parent |-> parentRoot, children |-> <<>>])
    IN  IF parentRoot \in DOMAIN added
        THEN [added EXCEPT ![parentRoot].children = Append(@, root)]
        ELSE added

AddOptimisticCandidate(roots, block) ==
    LET root == block.HashSSZ
        parentRoot == block.ParentRoot
        added == Stored(roots, root, [parent |-> parentRoot, children |-> <<>>])
    IN  IF root \in DOMAIN roots THEN roots
        ELSE IF parentRoot \in DOMAIN added
             THEN [added EXCEPT ![parentRoot].children = Append(@, root)]
             ELSE added

RECURSIVE ValidateFrom(_, _)
\* the loop of ValidateBlock, curRoot the root it looks up next
ValidateFrom(roots, curRoot) ==
    IF curRoot \in DOMAIN roots
    THEN ValidateFrom(Deleted(roots, curRoot), roots[curRoot].parent)
    ELSE roots

ValidateBlock(roots, block) == ValidateFrom(roots, block.StateRoot)

RECURSIVE InvalidateFrom(_, _)
\* the loop of InvalidateBlock, toRemoves its queue
InvalidateFrom(roots, toRemoves) ==
    IF toRemoves = <<>> THEN roots
    ELSE IF Head(toRemoves) \in DOMAIN roots
         THEN InvalidateFrom(Deleted(roots, Head(toRemoves)),
                             Tail(toRemoves) \o roots[Head(toRemoves)].children)
         ELSE InvalidateFrom(roots, Tail(toRemoves))

InvalidateBlock(roots, block) == InvalidateFrom(roots, <<block.StateRoot>>)

IsOptimistic(roots, root) ==
    IF root = ZeroHash THEN FALSE ELSE root \in DOMAIN roots

\* a goroutine that is in no call on the store
Idle ==
    [pc |-> "idle", call |-> "none", block |-> Block(1), root |-> ZeroHash,
     curRoot |-> ZeroHash, toRemoves |-> <<>>, raced |-> FALSE, ret |-> "none",
     calls |-> 0]

\* -------------------------------------------------------------- the Bridge

\* event IDs (uint64, far from its upper end)
EventIDs == 1..MaxEventID

\* what fetchSyncEvents may return: the IDs of one or two events, of none
Batches == {<<>>} \cup UNION {[1..n -> EventIDs] : n \in 1..2}

\* The Bridge as NewBridge returns it (ready false), Run not yet called.
\* pc: where Run is; lastEventID, events, err: its local variables; fromId:
\* the argument of the fetch under way; ret: the error Run returned.  The
\* rest records the surroundings: cancelled: ctx is done; fetches: fetches
\* started; lastSeen: the latest stored event ID, then the ID of the last
\* event of the latest non-empty batch; lastFetch: what the latest fetch that
\* returned no error returned; handled: the same of the latest fetch after
\* which Run has assigned b.ready; cause: why the loop was left.
NewBridge ==
    [pc |-> "new", lastEventID |-> 0, ready |-> FALSE, events |-> <<>>, err |-> NoErr,
     fromId |-> 0, ret |-> "none",
     cancelled |-> FALSE, fetches |-> 0, lastSeen |-> 0, lastFetch |-> "none",
     handled |-> "none", cause |-> "none"]

Bridge_Ready(b) == b.ready

\* Run up to the loop: lastEventID, err := GetLatestEventID(...)
Bridge_Run_start(b, id, err) ==
    IF err # NoErr THEN [b EXCEPT !.pc = "returned", !.ret = err]
    ELSE [b EXCEPT !.pc = "top", !.lastEventID = id]

\* the top of one iteration: the select on ctx.Done(), and the call of
\* fetchSyncEvents(ctx, lastEventID+1, to, 0)
Bridge_Run_top(b) ==
    IF b.cancelled THEN [b EXCEPT !.pc = "returned", !.ret = "ctx.Err"]
    ELSE [b EXCEPT !.pc = "fetching", !.fromId = b.lastEventID + 1]

\* events, err := b.fetchSyncEvents(...): the call returns
Bridge_Run_fetch(b, events, err) ==
    [b EXCEPT !.pc = "fetched", !.events = events, !.err = err]

\* after the fetch: if err != nil { return err }, then b.ready = false and
\* the call of AddEvents, or b.ready = true and the call of time.Sleep
Bridge_Run_fetched(b) ==
    IF b.err # NoErr THEN [b EXCEPT !.pc = "returned", !.ret = b.err]
    ELSE IF Len(b.events) # 0 THEN [b EXCEPT !.ready = FALSE, !.pc = "adding"]
    ELSE [b EXCEPT !.ready = TRUE, !.pc = "sleeping"]

\* mutant: Run goes on from the ID of the first event of the batch
Bridge_Run_added_first(b, addErr) ==
    IF addErr # NoErr THEN [b EXCEPT !.pc = "returned", !.ret = addErr]
    ELSE [b EXCEPT !.pc = "top", !.lastEventID = b.events[1]]

\* AddEvents returns addErr: return err, or
\* lastEventID = events[len(events)-1].ID and the next iteration
Bridge_Run_added(b, addErr) ==
    IF addErr # NoErr THEN [b EXCEPT !.pc = "returned", !.ret = addErr]
    ELSE [b EXCEPT !.pc = "top", !.lastEventID = b.events[Len(b.events)]]

\* ---------------------------------------------------------- devnet nodes

\* const RPCPortsPerNode
RPCPortsPerNode == 5

\* strings are sequences of characters; the decimal digits in their order
DigitChars == <<"0", "1", "2", "3", "4", "5", "6", "7", "8", "9">>

IsDigit(c) == \E i \in 1..10 : DigitChars[i] = c

DigitValue(c) == (CHOOSE i \in 1..10 : DigitChars[i] = c) - 1

RECURSIVE DecimalValue(_, _)
\* the number the digits s stand for, after the value acc of the digits
\* before them
DecimalValue(s, acc) ==
    IF s = <<>> THEN acc
    ELSE DecimalValue(Tail(s), 10 * acc + DigitValue(Head(s)))

\* strconv.Atoi: an optional sign, then one decimal digit or more
strconvAtoi(s) ==
    LET signed == s # <<>> /\ Head(s) \in {"+", "-"}
        digits == IF signed THEN Tail(s) ELSE s
    IN  IF digits = <<>> \/ \E i \in 1..Len(digits) : ~IsDigit(digits[i])
        THEN [n |-> 0, err |-> "ErrSyntax"]
        ELSE [n |-> IF signed /\ Head(s) = "-"
                    THEN 0 - DecimalValue(digits, 0)
                    ELSE DecimalValue(digits, 0),
              err |-> NoErr]

RECURSIVE DecimalDigits(_)
\* the decimal digits of n >= 0
DecimalDigits(n) ==
    IF n < 10 THEN <<DigitChars[n + 1]>>
    ELSE Append(DecimalDigits(n \div 10), DigitChars[(n % 10) + 1])

\* the verb %d of fmt.Sprintf
FormatInt(n) == IF n < 0 THEN <<"-">> \o DecimalDigits(0 - n) ELSE DecimalDigits(n)

\* the positions of the colons in string a
Colons(a) == {i \in 1..Len(a) : a[i] = ":"}

\* net.SplitHostPort, for addresses without brackets: the host before the
\* last colon, the port after it
netSplitHostPort(a) ==
    IF Colons(a) = {} THEN [host |-> <<>>, port |-> <<>>, err |-> "missing port in address"]
    ELSE LET i == CHOOSE c \in Colons(a) : \A d \in Colons(a) : d <= c
         IN IF Colons(a) # {i}
            THEN [host |-> <<>>, port |-> <<>>, err |-> "too many colons in address"]
            ELSE [host |-> SubSeq(a, 1, i - 1), port |-> SubSeq(a, i + 1, Len(a)),
                  err |-> NoErr]

portFromBase(baseAddr, increment, portCount) ==
    LET split == netSplitHostPort(baseAddr)
        portNo == strconvAtoi(split.port)
    IN  IF split.err # NoErr THEN [addr |-> <<>>, port |-> -1, err |-> split.err]
        ELSE IF portNo.err # NoErr THEN [addr |-> <<>>, port |-> -1, err |-> portNo.err]
        ELSE [addr |-> split.host \o <<":">> \o FormatInt(portNo.n + increment * portCount),
              port |-> portNo.n + increment * portCount,
              err |-> NoErr]

\* filepath.Join of two clean, non-empty elements
filepathJoin(a, b) == a \o <<"/">> \o b

\* the fields of Node that configure reads or writes, at their zero values
ZeroNode ==
    [Name |-> <<>>, DataDir |-> <<>>, LogDirPath |-> <<>>, LogDirPrefix |-> <<>>,
     Chain |-> <<>>, StaticPeers |-> <<>>, Metrics |-> FALSE, MetricsPort |-> 0,
     MetricsAddr |-> <<>>, Snapshots |-> FALSE, PrivateApiAddr |-> <<>>,
     HttpPort |-> 0, WSPort |-> 0, GRPCPort |-> 0, TCPPort |-> 0, AuthRpcPort |-> 0,
     Port |-> 0]

\* mutant: four ports a node
apiPort_dense(base, nodeNumber) == base.HttpPort + (nodeNumber * 4)

\* apiPort := base.HttpPort + (nodeNumber * RPCPortsPerNode)
apiPort(base, nodeNumber) == base.HttpPort + (nodeNumber * RPCPortsPerNode)

\* Node.configure: the node after it, and the error it returns
Node_configure(node, base, nodeNumber) ==
    LET name == IF Len(node.Name) = 0
                THEN base.Chain \o <<"-">> \o FormatInt(nodeNumber)
                ELSE node.Name
        api == portFromBase(base.PrivateApiAddr, nodeNumber, 1)
        n1 == [node EXCEPT !.Name = name,
                           !.DataDir = filepathJoin(base.DataDir, name),
                           !.LogDirPath = filepathJoin(base.DataDir, <<"l", "o", "g", "s">>),
                           !.LogDirPrefix = name,
                           !.Chain = base.Chain,
                           !.StaticPeers = base.StaticPeers,
                           !.Metrics = base.Metrics,
                           !.MetricsPort = base.MetricsPort,
                           !.MetricsAddr = base.MetricsAddr,
                           !.Snapshots = base.Snapshots,
                           !.PrivateApiAddr = api.addr]
    IN  IF api.err # NoErr THEN [node |-> n1, err |-> api.err]
        ELSE [node |-> [n1 EXCEPT !.HttpPort = apiPort(base, nodeNumber),
                                  !.WSPort = apiPort(base, nodeNumber) + 1,
                                  !.GRPCPort = apiPort(base, nodeNumber) + 2,
                                  !.TCPPort = apiPort(base, nodeNumber) + 3,
                                  !.AuthRpcPort = apiPort(base, nodeNumber) + 4,
                                  !.Port = base.Port + nodeNumber],
              err |-> NoErr]

\* private API addresses of a base node: with a port, with a signed port,
\* with a port of two digits that carries, without a host, and malformed ones
BaseAddrs ==
    {<<"h", ":", "9">>, <<"h", ":", "9", "8">>, <<":", "0", "7">>, <<"h", ":", "+", "3">>,
     <<"h">>, <<"h", ":">>, <<"h", ":", "x">>, <<"h", ":", ":", "1">>}

\* the base nodes: the default HTTP port or one inside the default range of
\* another node
BaseNodes ==
    {[ZeroNode EXCEPT !.Chain = <<"d">>, !.DataDir = <<"v">>, !.PrivateApiAddr = a,
                      !.HttpPort = h, !.Port = p] :
        a \in BaseAddrs, h \in {8545, 8548}, p \in {0, 30303}}

\* no base node chosen, no node configured
NoNodes == [chosen |-> FALSE, base |-> ZeroNode, nodes |-> {}]

\* ------------------------------------------------------------- the actions

Init ==
    /\ pc = "new"
    /\ ctor = "none"
    /\ kind = "none"
    /\ args = [x |-> NilStream, y |-> NilStream, limit |-> 0, tf |-> NilBytes]
    /\ m = ZeroIter
    /\ out = <<>>
    /\ has = <<>>
    /\ optimisticRoots = NewOptimisticStore
    /\ op = NoOp
    /\ opMutex = 0
    /\ goroutines = [g \in 1..NumGoroutines |-> Idle]
    /\ bridge = NewBridge
    /\ devnet = NoNodes

\* the constructor c is called with arguments a and returns b
Construct(c, a, b) ==
    /\ pc = "new"
    /\ pc' = "built"
    /\ ctor' = c
    /\ args' = a
    /\ kind' = b.kind
    /\ m' = b.m
    /\ UNCHANGED <<out, has, optimisticRoots, op, opMutex, goroutines,
                 bridge, devnet>>

CallUnionKV ==
    /\ pc = "new"
    /\ \E x \in XStreams \cup {NilStream}, y \in YStreams \cup {NilStream}, limit \in Limits :
            Construct("UnionKV", [x |-> x, y |-> y, limit |-> limit, tf |-> NilBytes],
                      UnionKV(x, y, limit))

CallMergeKVS ==
    /\ pc = "new"
    /\ \E x \in XStreams \cup {NilStream}, y \in YStreams \cup {NilStream}, limit \in Limits :
            Construct("MergeKVS", [x |-> x, y |-> y, limit |-> limit, tf |-> NilBytes],
                      MergeKVS(x, y, limit))

CallWrapKVS ==
    /\ pc = "new"
    /\ \E y \in YStreams \cup {NilStream} :
            Construct("WrapKVS", [x |-> NilStream, y |-> y, limit |-> 0, tf |-> NilBytes],
                      WrapKVS(y))

CallWrapKV ==
    /\ pc = "new"
    /\ \E x \in XStreams \cup {NilStream} :
            Construct("WrapKV", [x |-> x, y |-> NilStream, limit |-> 0, tf |-> NilBytes],
                      WrapKV(x))

CallTransformKV2U64 ==
    /\ pc = "new"
    /\ \E it \in XStreams, tf \in Keys \cup {NilBytes} :
            Construct("TransformKV2U64", [x |-> it, y |-> NilStream, limit |-> 0, tf |-> tf],
                      TransformKV2U64(it, tf))

\* one consumer call of Next on a stream of dynamic type kd, with result r
Call(kd, r) ==
    /\ pc = "built"
    /\ kind = kd
    /\ Len(out) < MaxCalls
    /\ m' = r.m
    /\ out' = Append(out, Entry(kd, m, r))
    /\ has' = <<>>
    /\ UNCHANGED <<pc, ctor, kind, args, optimisticRoots, op, opMutex, goroutines,
                 bridge, devnet>>

\* The consumer calls Next.  On the four composite types it may do so at any
\* time, also when HasNext is false.
CallUnionKVIterNext == Call("UnionKVIter", UnionKVIter_Next(m))

CallMergedKVNext == Call("MergedKV", MergedKV_Next(m))

CallWrapKVSIterNext == Call("WrapKVSIter", WrapKVSIter_Next(m))

CallWrapKVIterNext == Call("WrapKVIter", WrapKVIter_Next(m))

\* The consumer calls HasNext on a stream of one of the four composite types
\* or on a transformed stream (there each call reaches the child, and the
\* consumer makes at most MaxCalls of them).
CallHasNext ==
    /\ pc = "built"
    /\ kind \in Closers
    /\ kind = "TransformKV2U64Iter" => m.x.probes < MaxCalls
    /\ LET r == HasNextCall(kind, m)
       IN /\ m' = r.m
          /\ has' = <<r.b>>
    /\ UNCHANGED <<pc, ctor, kind, args, out, optimisticRoots, op, opMutex, goroutines,
                 bridge, devnet>>

\* On a transformed stream and on a leaf returned as it is, Next reaches the
\* leaf itself, whose behaviour past its end is the storage engine's: the
\* consumer calls it while the leaf has an element or its error to return,
\* whether or not it has asked HasNext before.
CallTransformKV2U64IterNext ==
    /\ LeafHasNext(m.x)
    /\ Call("TransformKV2U64Iter", TransformKV2U64Iter_Next(m))

CallLeafXNext ==
    /\ LeafHasNext(m.x)
    /\ Call("leafX", NextCall("leafX", m))

CallLeafYNext ==
    /\ LeafHasNext(m.y)
    /\ Call("leafY", NextCall("leafY", m))

\* --------------------------------------------------------- nested streams

\* The stream a constructor returned, as the interface value handed on to
\* another constructor: the input itself when the constructor returned it as
\* it is, else the new object with its call counters at zero.
Stream(b) ==
    IF b.kind = "leafX" THEN b.m.x
    ELSE IF b.kind = "leafY" THEN b.m.y
    ELSE [kind |-> b.kind, nil |-> FALSE, it |-> b.m, reads |-> 0, probes |-> 0,
          closer |-> b.kind \in Closers, closes |-> 0]

\* the shape of the stream a constructor returns ("KV", "KVS": a stream of
\* that shape taken from the storage engine)
ResultShape(c) ==
    CASE c \in {"UnionKV", "WrapKV", "KV"} -> "KV"
      [] c \in {"MergeKVS", "WrapKVS", "KVS"} -> "KVS"
      [] OTHER -> "U64"

\* leaves of nested streams: one pair under the first key, with or without
\* an error after it, with or without a Close method
NestLeafKV == {[LeafY(<<KeyOf(1)>>, e) EXCEPT !.closer = c] : e \in {NoErr, "ErrY"}, c \in BOOLEAN}
NestLeafKVS == {[LeafX(<<KeyOf(1)>>, e) EXCEPT !.closer = c] : e \in {NoErr, "ErrX"}, c \in BOOLEAN}

\* the second input of a nesting constructor: absent, an error-free leaf,
\* or such a leaf (with a Close method) under shape adapters
SideKV ==
    {NilStream} \cup {l \in NestLeafKV : l.fail = NoErr}
        \cup {Stream(WrapKV(Stream(WrapKVS(l)))) : l \in {k \in NestLeafKV : k.fail = NoErr /\ k.closer}}
SideKVS ==
    {NilStream} \cup {l \in NestLeafKVS : l.fail = NoErr}
        \cup {Stream(WrapKVS(l)) : l \in {k \in NestLeafKV : k.fail = NoErr /\ k.closer}}

RECURSIVE Depth(_)
\* constructors on the longest path from a stream down to a leaf
Depth(l) ==
    IF l.kind = "leaf" THEN 0
    ELSE LET dx == Depth(l.it.x)
             dy == Depth(l.it.y)
         IN 1 + (IF dx >= dy THEN dx ELSE dy)

\* the stream now held by the consumer, as an interface value
Root == Stream(Built(kind, m))

\* the error-free leaves of MaxLen elements, under the first MaxLen keys
LongLeafKV == LeafY([i \in 1..MaxLen |-> KeyOf(i)], NoErr)
LongLeafKVS == LeafX([i \in 1..MaxLen |-> KeyOf(i)], NoErr)

\* the consumer takes a stream from the storage engine
TakeLeaf ==
    /\ pc = "new"
    /\ \/ \E l \in NestLeafKV \cup {LongLeafKV} :
            Construct("KV", [x |-> NilStream, y |-> l, limit |-> 0, tf |-> NilBytes],
                      Built("leafY", [ZeroIter EXCEPT !.y = l]))
       \/ \E l \in NestLeafKVS \cup {LongLeafKVS} :
            Construct("KVS", [x |-> l, y |-> NilStream, limit |-> 0, tf |-> NilBytes],
                      Built("leafX", [ZeroIter EXCEPT !.x = l]))

\* constructor c is called on the stream held, not yet pulled from, and
\* returns b, which the consumer holds from now on
Nest(c, a, b) ==
    /\ ctor' = c
    /\ args' = a
    /\ kind' = b.kind
    /\ m' = b.m
    /\ UNCHANGED <<pc, out, has, optimisticRoots, op, opMutex, goroutines,
                 bridge, devnet>>

\* the stream held may be passed on to a constructor
Nestable == pc = "built" /\ out = <<>> /\ Depth(Root) < MaxDepth

NestUnionKV ==
    /\ Nestable
    /\ ResultShape(ctor) = "KV"
    /\ \E side \in SideKV, asX \in BOOLEAN :
            LET x == IF asX THEN Root ELSE side
                y == IF asX THEN side ELSE Root
            IN Nest("UnionKV", [x |-> x, y |-> y, limit |-> -1, tf |-> NilBytes],
                    UnionKV(x, y, -1))

NestMergeKVS ==
    /\ Nestable
    /\ \/ /\ ResultShape(ctor) = "KVS"
          /\ \E side \in SideKV :
                Nest("MergeKVS", [x |-> Root, y |-> side, limit |-> -1, tf |-> NilBytes],
                     MergeKVS(Root, side, -1))
       \/ /\ ResultShape(ctor) = "KV"
          /\ \E side \in SideKVS :
                Nest("MergeKVS", [x |-> side, y |-> Root, limit |-> -1, tf |-> NilBytes],
                     MergeKVS(side, Root, -1))

NestWrapKVS ==
    /\ Nestable
    /\ ResultShape(ctor) = "KV"
    /\ Nest("WrapKVS", [x |-> NilStream, y |-> Root, limit |-> 0, tf |-> NilBytes],
            WrapKVS(Root))

NestWrapKV ==
    /\ Nestable
    /\ ResultShape(ctor) = "KVS"
    /\ Nest("WrapKV", [x |-> Root, y |-> NilStream, limit |-> 0, tf |-> NilBytes],
            WrapKV(Root))

NestTransformKV2U64 ==
    /\ Nestable
    /\ ResultShape(ctor) = "KV"
    /\ Nest("TransformKV2U64", [x |-> Root, y |-> NilStream, limit |-> 0, tf |-> NilBytes],
            TransformKV2U64(Root, NilBytes))

\* the consumer pulls from the nested stream while HasNext is true
PullNested ==
    /\ pc = "built"
    /\ Len(out) < MaxCalls
    /\ LET h == HasNextCall(kind, m)
           r == NextCall(kind, h.m)
       IN /\ h.b
          /\ m' = r.m
          /\ out' = Append(out, [k |-> r.k, v |-> r.v, s |-> r.s, u |-> r.u, err |-> r.err])
    /\ UNCHANGED <<pc, ctor, kind, args, has, optimisticRoots, op, opMutex, goroutines,
                 bridge, devnet>>

\* the consumer closes the stream it holds: `if c, ok := it.(Closer); ok
\* { c.Close() }`, at any point of the iteration
CallClose ==
    /\ pc = "built"
    /\ pc' = "closed"
    /\ m' = CloseCall(kind, m)
    /\ UNCHANGED <<ctor, kind, args, out, has, optimisticRoots, op, opMutex, goroutines,
                 bridge, devnet>>

NextNested ==
    \/ TakeLeaf
    \/ NestUnionKV
    \/ NestMergeKVS
    \/ NestWrapKVS
    \/ NestWrapKV
    \/ NestTransformKV2U64
    \/ PullNested
    \/ CallClose

SpecNested == Init /\ [][NextNested]_vars

Next ==
    \/ CallUnionKV
    \/ CallMergeKVS
    \/ CallWrapKVS
    \/ CallWrapKV
    \/ CallTransformKV2U64
    \/ CallUnionKVIterNext
    \/ CallMergedKVNext
    \/ CallWrapKVSIterNext
    \/ CallWrapKVIterNext
    \/ CallHasNext
    \/ CallTransformKV2U64IterNext
    \/ CallLeafXNext
    \/ CallLeafYNext

Spec == Init /\ [][Next]_vars

\* --------------------------------------------- the optimistic store's calls

Did(name, block, root, ret) ==
    op' = [name |-> name, block |-> block, root |-> root,
           before |-> optimisticRoots, ret |-> ret]

IterVars == <<pc, ctor, kind, args, m, out, has>>

LockVars == <<opMutex, goroutines>>

RestVars == <<bridge, devnet>>

CallAddOptimisticCandidate ==
    \E b \in Blocks :
        /\ optimisticRoots' = AddOptimisticCandidate(optimisticRoots, b)
        /\ Did("AddOptimisticCandidate", b, ZeroHash, FALSE)
        /\ UNCHANGED <<IterVars, LockVars, RestVars>>

CallValidateBlock ==
    \E b \in Blocks :
        /\ optimisticRoots' = ValidateBlock(optimisticRoots, b)
        /\ Did("ValidateBlock", b, ZeroHash, FALSE)
        /\ UNCHANGED <<IterVars, LockVars, RestVars>>

CallInvalidateBlock ==
    \E b \in Blocks :
        /\ optimisticRoots' = InvalidateBlock(optimisticRoots, b)
        /\ Did("InvalidateBlock", b, ZeroHash, FALSE)
        /\ UNCHANGED <<IterVars, LockVars, RestVars>>

CallIsOptimistic ==
    \E root \in Hashes :
        /\ Did("IsOptimistic", Block(1), root, IsOptimistic(optimisticRoots, root))
        /\ UNCHANGED <<optimisticRoots, IterVars, LockVars, RestVars>>

NextStore ==
    \/ CallAddOptimisticCandidate
    \/ CallValidateBlock
    \/ CallInvalidateBlock
    \/ CallIsOptimistic

SpecStore == Init /\ [][NextStore]_vars

\* ------------------------------------ concurrent calls on the optimistic store

\* a block whose StateRoot field carries the root of block i: the field is
\* under the control of whoever built the block
Forged(i) == [HashSSZ |-> 2 * NumBlocks + i, ParentRoot |-> ZeroHash, StateRoot |-> i]

\* the blocks and roots the goroutines call the store with
RaceBlocks == {Block(1), Block(2), Forged(1)}

RaceRoots == {ZeroHash, 1, 2}

Goroutines == 1..NumGoroutines

\* goroutine t is between the start and the end of a write to the map: the
\* store of AddOptimisticCandidate, the delete of ValidateBlock or of
\* InvalidateBlock
Writing(t) == goroutines[t].pc \in {"storing", "deleting", "removing"}

\* goroutine t is between the start and the end of a read or write of the map
Accessing(t) == Writing(t) \/ goroutines[t].pc = "reading"

\* the goroutines after t has started a write: a read in progress in another
\* goroutine now overlaps a write
WriteBegun(t, g) ==
    [u \in Goroutines |->
        IF u = t THEN g
        ELSE IF goroutines[u].pc = "reading" THEN [goroutines[u] EXCEPT !.raced = TRUE]
        ELSE goroutines[u]]

StoreFrame == UNCHANGED <<IterVars, op, RestVars>>

\* a goroutine enters AddOptimisticCandidate, ValidateBlock or InvalidateBlock:
\* what is done before opMutex.Lock()
GoCall ==
    \E t \in Goroutines, c \in {"AddOptimisticCandidate", "ValidateBlock", "InvalidateBlock"},
       b \in RaceBlocks :
        /\ goroutines[t].pc = "idle"
        /\ goroutines[t].calls < MaxGoCalls
        /\ goroutines' = [goroutines EXCEPT ![t] =
               [Idle EXCEPT !.pc = "lock", !.call = c, !.block = b, !.root = b.HashSSZ,
                            !.curRoot = b.StateRoot, !.toRemoves = <<b.StateRoot>>,
                            !.calls = goroutines[t].calls + 1]]
        /\ UNCHANGED <<optimisticRoots, opMutex>>
        /\ StoreFrame

\* impl.opMutex.Lock()
Lock ==
    \E t \in Goroutines :
        /\ goroutines[t].pc = "lock"
        /\ opMutex = 0
        /\ opMutex' = t
        /\ goroutines' = [goroutines EXCEPT ![t].pc =
               CASE goroutines[t].call = "AddOptimisticCandidate" -> "check"
                 [] goroutines[t].call = "ValidateBlock" -> "walk"
                 [] OTHER -> "sweep"]
        /\ UNCHANGED optimisticRoots
        /\ StoreFrame

\* if _, ok := impl.optimisticRoots[root]; ok { return nil }, and the start of
\* the write impl.optimisticRoots[root] = blockNode
AddCheck ==
    \E t \in Goroutines :
        /\ goroutines[t].pc = "check"
        /\ goroutines' =
               IF goroutines[t].root \in DOMAIN optimisticRoots
               THEN [goroutines EXCEPT ![t].pc = "unlock"]
               ELSE WriteBegun(t, [goroutines[t] EXCEPT !.pc = "storing"])
        /\ UNCHANGED <<optimisticRoots, opMutex>>
        /\ StoreFrame

\* the end of the write impl.optimisticRoots[root] = blockNode
AddStore ==
    \E t \in Goroutines :
        /\ goroutines[t].pc = "storing"
        /\ optimisticRoots' =
               Stored(optimisticRoots, goroutines[t].root,
                      [parent |-> goroutines[t].block.ParentRoot, children |-> <<>>])
        /\ goroutines' = [goroutines EXCEPT ![t].pc = "checkParent"]
        /\ UNCHANGED opMutex
        /\ StoreFrame

\* if _, ok := impl.optimisticRoots[parentRoot]; ok
AddCheckParent ==
    \E t \in Goroutines :
        /\ goroutines[t].pc = "checkParent"
        /\ goroutines' =
               IF goroutines[t].block.ParentRoot \in DOMAIN optimisticRoots
               THEN [goroutines EXCEPT ![t].pc = "linking"]
               ELSE [goroutines EXCEPT ![t].pc = "unlock"]
        /\ UNCHANGED <<optimisticRoots, opMutex>>
        /\ StoreFrame

\* impl.optimisticRoots[parentRoot].children = append(...): a lookup in the
\* map and a store into the opNode it points to, no write to the map
AddLink ==
    \E t \in Goroutines :
        /\ goroutines[t].pc = "linking"
        /\ optimisticRoots' =
               [optimisticRoots EXCEPT ![goroutines[t].block.ParentRoot].children =
                    Append(@, goroutines[t].root)]
        /\ goroutines' = [goroutines EXCEPT ![t].pc = "unlock"]
        /\ UNCHANGED opMutex
        /\ StoreFrame

\* one test of the loop of ValidateBlock, and the start of the delete
ValidateWalk ==
    \E t \in Goroutines :
        /\ goroutines[t].pc = "walk"
        /\ goroutines' =
               IF goroutines[t].curRoot \in DOMAIN optimisticRoots
               THEN WriteBegun(t, [goroutines[t] EXCEPT !.pc = "deleting"])
               ELSE [goroutines EXCEPT ![t].pc = "unlock"]
        /\ UNCHANGED <<optimisticRoots, opMutex>>
        /\ StoreFrame

\* the end of the delete, and curRoot = node.parent
ValidateDelete ==
    \E t \in Goroutines :
        /\ goroutines[t].pc = "deleting"
        /\ optimisticRoots' = Deleted(optimisticRoots, goroutines[t].curRoot)
        /\ goroutines' = [goroutines EXCEPT
               ![t].pc = "walk",
               ![t].curRoot = optimisticRoots[goroutines[t].curRoot].parent]
        /\ UNCHANGED opMutex
        /\ StoreFrame

\* one turn of the loop of InvalidateBlock up to the start of the delete
InvalidateSweep ==
    \E t \in Goroutines :
        /\ goroutines[t].pc = "sweep"
        /\ goroutines' =
               IF goroutines[t].toRemoves = <<>>
               THEN [goroutines EXCEPT ![t].pc = "unlock"]
               ELSE IF Head(goroutines[t].toRemoves) \in DOMAIN optimisticRoots
               THEN WriteBegun(t, [goroutines[t] EXCEPT
                        !.pc = "removing",
                        !.curRoot = Head(goroutines[t].toRemoves),
                        !.toRemoves = Tail(@)])
               ELSE [goroutines EXCEPT ![t].toRemoves = Tail(@)]
        /\ UNCHANGED <<optimisticRoots, opMutex>>
        /\ StoreFrame

\* the end of the delete, and toRemoves = append(toRemoves, node.children...)
InvalidateRemove ==
    \E t \in Goroutines :
        /\ goroutines[t].pc = "removing"
        /\ optimisticRoots' = Deleted(optimisticRoots, goroutines[t].curRoot)
        /\ goroutines' = [goroutines EXCEPT
               ![t].pc = "sweep",
               ![t].toRemoves = @ \o optimisticRoots[goroutines[t].curRoot].children]
        /\ UNCHANGED opMutex
        /\ StoreFrame

\* the deferred impl.opMutex.Unlock(), and return nil
Unlock ==
    \E t \in Goroutines :
        /\ goroutines[t].pc = "unlock"
        /\ opMutex' = 0
        /\ goroutines' = [goroutines EXCEPT ![t].pc = "idle", ![t].ret = "nil"]
        /\ UNCHANGED optimisticRoots
        /\ StoreFrame

\* a goroutine enters IsOptimistic: the zero hash is answered at once,
\* otherwise the lookup in the map starts, no lock taken
IsOptimisticEnter ==
    \E t \in Goroutines, root \in RaceRoots :
        /\ goroutines[t].pc = "idle"
        /\ goroutines[t].calls < MaxGoCalls
        /\ goroutines' = [goroutines EXCEPT ![t] =
               [Idle EXCEPT !.call = "IsOptimistic", !.root = root,
                            !.calls = goroutines[t].calls + 1,
                            !.pc = IF root = ZeroHash THEN "idle" ELSE "reading",
                            !.ret = IF root = ZeroHash THEN "false" ELSE "none",
                            !.raced = \E u \in Goroutines \ {t} : Writing(u)]]
        /\ UNCHANGED <<optimisticRoots, opMutex>>
        /\ StoreFrame

\* the lookup ends and IsOptimistic returns
IsOptimisticReturn ==
    \E t \in Goroutines :
        /\ goroutines[t].pc = "reading"
        /\ ~goroutines[t].raced
        /\ goroutines' = [goroutines EXCEPT
               ![t].pc = "idle",
               ![t].ret = IF IsOptimistic(optimisticRoots, goroutines[t].root)
                          THEN "true" ELSE "false"]
        /\ UNCHANGED <<optimisticRoots, opMutex>>
        /\ StoreFrame

\* the lookup overlapped a write of another goroutine: a data race.  It
\* returns either value, or the runtime stops the process ("fatal error:
\* concurrent map read and map write")
IsOptimisticRaced ==
    \E t \in Goroutines :
        /\ goroutines[t].pc = "reading"
        /\ goroutines[t].raced
        /\ \/ \E b \in {"true", "false"} :
                goroutines' = [goroutines EXCEPT ![t].pc = "idle", ![t].ret = b]
           \/ goroutines' = [u \in Goroutines |->
                                [goroutines[u] EXCEPT !.pc = "crashed", !.ret = "fatal"]]
        /\ UNCHANGED <<optimisticRoots, opMutex>>
        /\ StoreFrame

NextRace ==
    \/ GoCall
    \/ Lock
    \/ AddCheck
    \/ AddStore
    \/ AddCheckParent
    \/ AddLink
    \/ ValidateWalk
    \/ ValidateDelete
    \/ InvalidateSweep
    \/ InvalidateRemove
    \/ Unlock
    \/ IsOptimisticEnter
    \/ IsOptimisticReturn
    \/ IsOptimisticRaced

SpecRace == Init /\ [][NextRace]_vars

\* ------------------------------------------------------ the Bridge's steps

BridgeFrame == UNCHANGED <<IterVars, optimisticRoots, op, LockVars, devnet>>

\* Run is called; GetLatestEventID returns the latest stored ID, or fails
BridgeRun ==
    /\ bridge.pc = "new"
    /\ \/ \E id \in 0..MaxEventID :
            bridge' = [Bridge_Run_start(bridge, id, NoErr) EXCEPT !.lastSeen = id]
       \/ bridge' = [Bridge_Run_start(bridge, 0, "ErrDB") EXCEPT !.cause = "db"]
    /\ BridgeFrame

\* the context is cancelled, at any moment
BridgeCancel ==
    /\ bridge.pc # "returned"
    /\ ~bridge.cancelled
    /\ bridge' = [bridge EXCEPT !.cancelled = TRUE]
    /\ BridgeFrame

\* Run comes to the top of its loop
BridgeIterate ==
    /\ bridge.pc = "top"
    /\ bridge.cancelled \/ bridge.fetches < MaxFetches
    /\ bridge' = [Bridge_Run_top(bridge) EXCEPT
           !.fetches = IF bridge.cancelled THEN @ ELSE @ + 1,
           !.cause = IF bridge.cancelled THEN "cancelled" ELSE @]
    /\ BridgeFrame

\* fetchSyncEvents fails
BridgeFetchFails ==
    /\ bridge.pc = "fetching"
    /\ bridge' = Bridge_Run_fetch(bridge, <<>>, "ErrFetch")
    /\ BridgeFrame

\* fetchSyncEvents returns events, none or some
BridgeFetched ==
    /\ bridge.pc = "fetching"
    /\ \E events \in Batches :
        bridge' = [Bridge_Run_fetch(bridge, events, NoErr) EXCEPT
               !.lastFetch = IF events = <<>> THEN "empty" ELSE "events",
               !.lastSeen = IF events = <<>> THEN @ ELSE events[Len(events)]]
    /\ BridgeFrame

\* Run tests err and len(events) and assigns b.ready
BridgeAssignReady ==
    /\ bridge.pc = "fetched"
    /\ bridge' = [Bridge_Run_fetched(bridge) EXCEPT
           !.handled = IF bridge.err # NoErr THEN @ ELSE bridge.lastFetch,
           !.cause = IF bridge.err # NoErr THEN "fetch" ELSE @]
    /\ BridgeFrame

\* AddEvents stores the events or fails
BridgeAdded ==
    /\ bridge.pc = "adding"
    /\ \E addErr \in {NoErr, "ErrAdd"} :
        bridge' = [Bridge_Run_added(bridge, addErr) EXCEPT
               !.cause = IF addErr # NoErr THEN "add" ELSE @]
    /\ BridgeFrame

\* time.Sleep returns after an empty batch: the next iteration
BridgeSlept ==
    /\ bridge.pc = "sleeping"
    /\ bridge' = [bridge EXCEPT !.pc = "top"]
    /\ BridgeFrame

NextBridge ==
    \/ BridgeRun
    \/ BridgeCancel
    \/ BridgeIterate
    \/ BridgeFetchFails
    \/ BridgeFetched
    \/ BridgeAssignReady
    \/ BridgeAdded
    \/ BridgeSlept

SpecBridge == Init /\ [][NextBridge]_vars

\* ------------------------------------------------------- devnet's steps

DevnetFrame == UNCHANGED <<IterVars, optimisticRoots, op, LockVars, bridge>>

\* the base node of a network is fixed
ChooseBase ==
    /\ ~devnet.chosen
    /\ \E base \in BaseNodes :
            devnet' = [devnet EXCEPT !.chosen = TRUE, !.base = base]
    /\ DevnetFrame

\* a node, named or not, is configured from the base under a node number
\* not yet used
Configure ==
    /\ devnet.chosen
    /\ \E n \in 0..MaxNodeNumber, name \in {<<>>, <<"n">>} :
        /\ \A e \in devnet.nodes : e.n # n
        /\ LET r == Node_configure([ZeroNode EXCEPT !.Name = name], devnet.base, n)
           IN devnet' = [devnet EXCEPT !.nodes = @ \cup {[n |-> n, node |-> r.node, err |-> r.err]}]
    /\ DevnetFrame

NextDevnet ==
    \/ ChooseBase
    \/ Configure

SpecDevnet == Init /\ [][NextDevnet]_vars





\* ------------------------------------------------------------ the claims
\* the consumer has called Next only while HasNext was true, up to call i
LegalUpTo(i) == \A j \in 1..i : out[j].ok

\* ... in all its calls so far
Legal == LegalUpTo(Len(out))

\* the consumer looped on HasNext, and HasNext is now false
Drained == pc = "built" /\ Legal /\ ~HasNext(kind, m)

\* call i returned an element to a consumer that kept to HasNext
Element(i) == LegalUpTo(i) /\ out[i].err = NoErr

KeysIn(l) == {l.items[i].k : i \in 1..Len(l.items)}

StrictAsc(l) ==
    \A i \in 1..(Len(l.items) - 1) : bytesCompare(l.items[i].k, l.items[i + 1].k) < 0

ErrorFree(l) == l.fail = NoErr

\* the value leaf l holds for key k (l holds k once)
ValueIn(l, k) == l.items[CHOOSE i \in 1..Len(l.items) : l.items[i].k = k].v

StepIn(l, k) == l.items[CHOOSE i \in 1..Len(l.items) : l.items[i].k = k].s

\* the place of key k in the ascending list of the keys S
Rank(k, S) == Cardinality({j \in S : bytesCompare(j, k) < 0}) + 1

\* both inputs present, free of errors, with strictly ascending keys
StrictInputs ==
    /\ ~args.x.nil /\ ~args.y.nil
    /\ ErrorFree(args.x) /\ ErrorFree(args.y)
    /\ StrictAsc(args.x) /\ StrictAsc(args.y)

\* the entries of out that carry key k
At(k) == {i \in 1..Len(out) : out[i].k = k}

\* C1: UnionKV of two error-free streams with strictly ascending keys and a
\* negative limit, drained by Next until HasNext is false, returns the
\* ascending list of all keys of x and y, each once, with x's value when the
\* key is in x and y's value otherwise.
C1_UnionShadowing ==
    (kind = "UnionKVIter" /\ StrictInputs /\ args.limit < 0 /\ Drained) =>
        LET S == KeysIn(args.x) \cup KeysIn(args.y)
        IN /\ Len(out) = Cardinality(S)
           /\ \A i \in 1..Len(out) :
                /\ out[i].err = NoErr
                /\ out[i].k \in S
                /\ Rank(out[i].k, S) = i
                /\ out[i].v = IF out[i].k \in KeysIn(args.x)
                              THEN ValueIn(args.x, out[i].k)
                              ELSE ValueIn(args.y, out[i].k)

\* a drained union of streams that share a key and each hold a key of their own
C1_Witness ==
    /\ kind = "UnionKVIter" /\ StrictInputs /\ args.limit < 0 /\ Drained
    /\ KeysIn(args.x) \cap KeysIn(args.y) # {}
    /\ KeysIn(args.x) \ KeysIn(args.y) # {}
    /\ KeysIn(args.y) \ KeysIn(args.x) # {}
    /\ Len(out) = 3

\* C2: MergeKVS of an error-free triple stream x and pair stream y with
\* strictly ascending keys and a negative limit, drained, returns every
\* element of x with its step and every element of y with step 0, and for a
\* key in both inputs exactly two entries, x's immediately followed by y's.
C2_MergeKeepsBoth ==
    (kind = "MergedKV" /\ StrictInputs /\ args.limit < 0 /\ Drained) =>
        /\ Len(out) = Len(args.x.items) + Len(args.y.items)
        /\ \A i \in 1..Len(out) : out[i].err = NoErr
        /\ \A k \in KeysIn(args.x) :
            \E i \in At(k) : out[i].v = ValueIn(args.x, k) /\ out[i].s = StepIn(args.x, k)
        /\ \A k \in KeysIn(args.y) :
            \E i \in At(k) : out[i].v = ValueIn(args.y, k) /\ out[i].s = 0
        /\ \A k \in KeysIn(args.x) \cap KeysIn(args.y) :
            /\ Cardinality(At(k)) = 2
            /\ \E i \in At(k) :
                /\ i + 1 \in At(k)
                /\ out[i].v = ValueIn(args.x, k) /\ out[i].s = StepIn(args.x, k)
                /\ out[i + 1].v = ValueIn(args.y, k) /\ out[i + 1].s = 0

\* a drained merge of two streams of two keys with one key in common
C2_Witness ==
    /\ kind = "MergedKV" /\ StrictInputs /\ args.limit < 0 /\ Drained
    /\ KeysIn(args.x) \cap KeysIn(args.y) # {}
    /\ Len(out) = 4

\* C3: with both inputs sorted ascending by key, the keys of the successive
\* elements UnionKV and MergeKVS return to a consumer that loops on HasNext
\* never decrease, at every point of the iteration and for every limit.
C3_SortedOutput ==
    kind \in {"UnionKVIter", "MergedKV"} =>
        \A i \in 1..(Len(out) - 1) :
            (Element(i) /\ Element(i + 1)) => bytesCompare(out[i].k, out[i + 1].k) <= 0

\* under a positive limit, a pair of y returned and then a pair of x with a
\* greater key
C3_Witness ==
    /\ kind \in {"UnionKVIter", "MergedKV"}
    /\ args.limit > 0
    /\ Len(out) >= 2 /\ Element(Len(out))
    /\ out[1].v \in {args.y.items[i].v : i \in 1..Len(args.y.items)}
    /\ out[2].v \in {args.x.items[i].v : i \in 1..Len(args.x.items)}
    /\ bytesCompare(out[1].k, out[2].k) < 0

\* the elements returned so far that came from leaf l (by their value)
FromLeaf(l, k) ==
    {i \in At(k) : Element(i) /\ out[i].v \in {l.items[j].v : j \in 1..Len(l.items)}}

\* C4 as stated: for inputs that are each sorted ascending by key, no two
\* pairs UnionKV emits share a key, and in MergeKVS output a key occurs at
\* most once per input.
C4_Original ==
    /\ kind = "UnionKVIter" =>
        \A i, j \in 1..Len(out) :
            (Element(i) /\ Element(j) /\ out[i].k = out[j].k) => i = j
    /\ kind = "MergedKV" =>
        \A k \in Keys : /\ Cardinality(FromLeaf(args.x, k)) <= 1
                        /\ Cardinality(FromLeaf(args.y, k)) <= 1

\* C4 amended: for inputs whose keys are each strictly ascending, no two
\* pairs UnionKV emits share a key, and in MergeKVS output a key occurs at
\* most once per input.
C4_UniqueKeys ==
    (StrictAsc(args.x) /\ StrictAsc(args.y)) =>
        /\ kind = "UnionKVIter" =>
            \A i, j \in 1..Len(out) :
                (Element(i) /\ Element(j) /\ out[i].k = out[j].k) => i = j
        /\ kind = "MergedKV" =>
            \A k \in Keys : /\ Cardinality(FromLeaf(args.x, k)) <= 1
                            /\ Cardinality(FromLeaf(args.y, k)) <= 1

\* a union of strictly ascending streams that has passed a key held by both
C4_Witness ==
    /\ kind = "UnionKVIter" /\ StrictAsc(args.x) /\ StrictAsc(args.y)
    /\ Len(out) >= 2 /\ Element(Len(out))
    /\ out[1].k \in KeysIn(args.x) \cap KeysIn(args.y)

RECURSIVE RefUnion(_, _)
\* the two-way union of section 4.4 on whole sequences: on equal keys x's
\* pair, y's dropped
RefUnion(xs, ys) ==
    IF xs = <<>> THEN [i \in 1..Len(ys) |-> [k |-> ys[i].k, v |-> ys[i].v, s |-> 0]]
    ELSE IF ys = <<>> THEN [i \in 1..Len(xs) |-> [k |-> xs[i].k, v |-> xs[i].v, s |-> 0]]
    ELSE LET c == bytesCompare(Head(xs).k, Head(ys).k)
             hx == [k |-> Head(xs).k, v |-> Head(xs).v, s |-> 0]
             hy == [k |-> Head(ys).k, v |-> Head(ys).v, s |-> 0]
         IN IF c < 0 THEN <<hx>> \o RefUnion(Tail(xs), ys)
            ELSE IF c = 0 THEN <<hx>> \o RefUnion(Tail(xs), Tail(ys))
            ELSE <<hy>> \o RefUnion(xs, Tail(ys))

RECURSIVE RefMerge(_, _)
\* the two-way merge of section 4.4 on whole sequences: on equal keys x's
\* triple first, y's pair kept, with step 0
RefMerge(xs, ys) ==
    IF xs = <<>> THEN [i \in 1..Len(ys) |-> [k |-> ys[i].k, v |-> ys[i].v, s |-> 0]]
    ELSE IF ys = <<>> THEN xs
    ELSE IF bytesCompare(Head(xs).k, Head(ys).k) <= 0
         THEN <<Head(xs)>> \o RefMerge(Tail(xs), ys)
         ELSE <<[k |-> Head(ys).k, v |-> Head(ys).v, s |-> 0]>> \o RefMerge(xs, Tail(ys))

\* out is, element by element, the first Len(out) entries of ref
PrefixOf(ref) ==
    /\ Len(out) <= Len(ref)
    /\ \A i \in 1..Len(out) :
        /\ out[i].err = NoErr
        /\ out[i].k = ref[i].k /\ out[i].v = ref[i].v /\ out[i].s = ref[i].s

\* two present, error-free inputs and a positive limit, drained by a
\* consumer that loops on HasNext
LimitedAndDrained ==
    /\ kind \in {"UnionKVIter", "MergedKV"}
    /\ ErrorFree(args.x) /\ ErrorFree(args.y)
    /\ args.limit > 0
    /\ Drained

\* C5 as stated: with two present, error-free inputs and a limit L > 0 the
\* consumer receives min(L, N) elements, N the number of distinct keys for
\* UnionKV and the number of input elements for MergeKVS, and they are the
\* first min(L, N) of the unlimited output.
C5_Original ==
    LimitedAndDrained =>
        /\ kind = "UnionKVIter" =>
            /\ Len(out) = Min(args.limit, Cardinality(KeysIn(args.x) \cup KeysIn(args.y)))
            /\ PrefixOf(RefUnion(args.x.items, args.y.items))
        /\ kind = "MergedKV" =>
            /\ Len(out) = Min(args.limit, Len(args.x.items) + Len(args.y.items))
            /\ PrefixOf(RefMerge(args.x.items, args.y.items))

\* C5 amended: the same, with N the number of distinct keys for UnionKV when
\* the keys of each input are strictly ascending.
C5_LimitCount ==
    LimitedAndDrained =>
        /\ (kind = "UnionKVIter" /\ StrictAsc(args.x) /\ StrictAsc(args.y)) =>
            /\ Len(out) = Min(args.limit, Cardinality(KeysIn(args.x) \cup KeysIn(args.y)))
            /\ PrefixOf(RefUnion(args.x.items, args.y.items))
        /\ kind = "MergedKV" =>
            /\ Len(out) = Min(args.limit, Len(args.x.items) + Len(args.y.items))
            /\ PrefixOf(RefMerge(args.x.items, args.y.items))

\* a union cut by its limit before its last distinct key
C5_Witness ==
    /\ LimitedAndDrained
    /\ kind = "UnionKVIter" /\ StrictAsc(args.x) /\ StrictAsc(args.y)
    /\ Len(out) = args.limit
    /\ Cardinality(KeysIn(args.x) \cup KeysIn(args.y)) > args.limit
    /\ m.yHasNext

\* C6 as stated: whenever the remaining limit of a UnionKVIter or MergedKV
\* is zero, HasNext reports false, whatever the inputs hold or returned on
\* the lookahead pull.
C6_Original ==
    (pc = "built" /\ kind \in {"UnionKVIter", "MergedKV"} /\ m.limit = 0) =>
        ~HasNext(kind, m)

\* C6 amended: whenever the remaining limit of a UnionKVIter or MergedKV is
\* zero and no lookahead pull has returned an error, HasNext reports false,
\* whatever the inputs still hold.
C6_LimitExhausted ==
    (pc = "built" /\ kind \in {"UnionKVIter", "MergedKV"} /\ m.limit = 0 /\ m.err = NoErr) =>
        ~HasNext(kind, m)

\* a positive limit counted down to zero with a pair of each input buffered
C6_Witness ==
    /\ pc = "built" /\ kind \in {"UnionKVIter", "MergedKV"}
    /\ args.limit > 0 /\ m.limit = 0 /\ m.err = NoErr
    /\ m.xHasNext /\ m.yHasNext

\* exactly one of the two inputs of UnionKV / MergeKVS is absent
OneAbsent == ctor \in {"UnionKV", "MergeKVS"} /\ (args.x.nil # args.y.nil)

BothAbsent == ctor \in {"UnionKV", "MergeKVS"} /\ args.x.nil /\ args.y.nil

\* the input that is present
Present == IF args.x.nil THEN args.y ELSE args.x

\* C7 as stated: UnionKV(x, nil, n) yields x truncated to n elements (at
\* most n elements are emitted), UnionKV(nil, nil, n) is empty, and likewise
\* for MergeKVS with one input absent.
C7_Original ==
    /\ (OneAbsent /\ args.limit >= 0) =>
        /\ Cardinality({i \in 1..Len(out) : Element(i)}) <= args.limit
        /\ \A i \in 1..Len(out) :
            Element(i) => (i <= Len(Present.items) /\ out[i].k = Present.items[i].k
                                                  /\ out[i].v = Present.items[i].v)
    /\ BothAbsent => (~HasNext(kind, m) /\ out = <<>>)

\* C7 amended: UnionKV(x, nil, n) yields the whole of x whatever n is (the
\* limit is not applied when an input is absent), UnionKV(nil, nil, n) is
\* empty, and likewise for MergeKVS with one input absent.
C7_AbsentInputWhole ==
    /\ OneAbsent =>
        /\ \A i \in 1..Len(out) :
            Element(i) => (i <= Len(Present.items) /\ out[i].k = Present.items[i].k
                                                  /\ out[i].v = Present.items[i].v)
        /\ Drained => Len(out) = Len(Present.items)
    /\ BothAbsent => (~HasNext(kind, m) /\ out = <<>>)

\* UnionKV(x, nil, n) drained with more than n >= 0 elements returned
C7_Witness ==
    /\ OneAbsent /\ ctor = "UnionKV" /\ args.y.nil
    /\ args.limit >= 0 /\ Drained
    /\ Len(out) > args.limit

\* what the i-th Next call on leaf l returns when l is consumed directly
Direct(l, i) ==
    IF i <= Len(l.items)
    THEN [k |-> l.items[i].k, v |-> l.items[i].v, s |-> l.items[i].s, err |-> NoErr]
    ELSE [k |-> NilBytes, v |-> NilBytes, s |-> 0, err |-> l.fail]

\* the stream returned is the leaf l itself, held in lm: every result is the
\* leaf's own, one leaf Next per consumer Next and nothing read ahead
SameAs(l, lm) ==
    /\ lm.reads = Len(out) /\ lm.probes = 0
    /\ HasNext(kind, m) = (Len(out) < Len(l.items) \/ l.fail # NoErr)
    /\ \A i \in 1..Len(out) :
        /\ out[i].k = Direct(l, i).k /\ out[i].v = Direct(l, i).v
        /\ out[i].s = Direct(l, i).s /\ out[i].err = Direct(l, i).err

\* C8: with exactly one input of UnionKV absent the result behaves as the
\* other input consumed directly (no merge wrapper); MergeKVS with y absent
\* yields x unchanged, with x absent every element of y, in order, with
\* step 0; with both absent HasNext is false.
C8_DegenerateIdentity ==
    /\ (OneAbsent /\ ctor = "UnionKV" /\ args.x.nil) =>
        (kind = "leafY" /\ SameAs(args.y, m.y))
    /\ (OneAbsent /\ args.y.nil) =>
        (kind = "leafX" /\ SameAs(args.x, m.x))
    /\ (OneAbsent /\ ctor = "MergeKVS" /\ args.x.nil) =>
        /\ \A i \in 1..Len(out) :
            Element(i) => /\ i <= Len(args.y.items)
                          /\ out[i].k = args.y.items[i].k
                          /\ out[i].v = args.y.items[i].v
                          /\ out[i].s = 0
        /\ Drained => Len(out) = Len(args.y.items)
    /\ BothAbsent => ~HasNext(kind, m)

\* MergeKVS(x, nil, n) after two elements of x, each with its step
C8_Witness ==
    /\ OneAbsent /\ ctor = "MergeKVS" /\ args.y.nil
    /\ Len(out) = 2 /\ out[2].err = NoErr /\ out[2].s = 2

\* the consumer's call i is the one during which leaf l returned its error
FailedDuring(l, reads, i) ==
    /\ l.fail # NoErr
    /\ out[i].errBefore = NoErr
    /\ reads > Len(l.items)

\* C9: once a Next call on a child of a UnionKVIter, MergedKV, WrapKVSIter
\* or WrapKVIter has returned an error, every later Next on the composite
\* returns that error and the composite calls neither HasNext nor Next on
\* any child again.
C9_ErrorLatching ==
    kind \in {"UnionKVIter", "MergedKV", "WrapKVSIter", "WrapKVIter"} =>
        /\ ChildErr(m) # NoErr => m.err = ChildErr(m)
        /\ \A i \in 1..Len(out) :
            /\ out[i].errBefore # NoErr =>
                /\ out[i].err = out[i].errBefore
                /\ out[i].k = NilBytes /\ out[i].v = NilBytes /\ out[i].s = 0
                /\ out[i].callsAfter = out[i].callsBefore
            \* the call during which x fails: x's HasNext and Next, then nothing
            /\ FailedDuring(args.x, out[i].xReads, i) =>
                out[i].callsAfter = out[i].callsBefore + 2
        \* x fails in the constructor: y is never called
        /\ (args.x.fail # NoErr /\ args.x.items = <<>>) =>
            (m.y.reads = 0 /\ m.y.probes = 0)
        /\ m.x.reads <= Len(args.x.items) + 1
        /\ m.y.reads <= Len(args.y.items) + 1

\* a union whose x failed while y still held pairs, and two Next calls since
C9_Witness ==
    /\ kind = "UnionKVIter"
    /\ Len(out) >= 3
    /\ out[Len(out) - 1].errBefore = "ErrX" /\ out[Len(out)].err = "ErrX"
    /\ out[1].err = NoErr
    /\ m.yHasNext /\ m.y.reads < Len(args.y.items)

\* C10 as stated, for a failure of the mapping function: in the stream built
\* by TransformKV2U64, once the mapping function has failed on an element,
\* every later Next returns the same error and the child is not pulled again.
C10_Original ==
    kind = "TransformKV2U64Iter" =>
        \A i, j \in 1..Len(out) :
            (i < j /\ out[i].err = "ErrT") =>
                (out[j].err = out[i].err /\ out[j].xReads = out[i].xReads)

\* C11 as stated: between the construction of a UnionKV, MergeKVS, WrapKVS or
\* WrapKV stream and the consumer's first Next call on it, no HasNext or Next
\* call is made on any child stream.
C11_Original ==
    (pc = "built" /\ kind \in Composite /\ out = <<>>) => ChildCalls(m) = 0

\* what the first HasNext call on input l answers: it has an element, or its
\* error to return
FirstHasNext(l) == l.items # <<>> \/ l.fail # NoErr

\* child l has had exactly one lookahead pull since it was handed over as
\* input a: one HasNext call and, when that answered true, one Next call
PulledOnce(l, a) ==
    /\ l.probes = 1
    /\ l.reads = IF FirstHasNext(a) THEN 1 ELSE 0

\* no call at all has been made on child l
NotCalled(l) == l.probes = 0 /\ l.reads = 0

\* the first Next call on input l returns its error
FailsAtOnce(l) == l.items = <<>> /\ l.fail # NoErr

\* C11 amended: the constructor makes exactly one lookahead pull (one HasNext
\* call and, when it reports an element, one Next call) on the first or only
\* child, and on the second child of a union or merge too unless the first
\* child's Next call returned an error, in which case the second child is
\* not called at all; from the constructor's return to the consumer's first
\* Next call no HasNext or Next call is made on any child stream.
C11_LazyAfterConstruction ==
    [][(pc' = "built" /\ kind' \in Composite /\ out' = <<>>) =>
         IF pc = "new"
         THEN CASE kind' \in {"UnionKVIter", "MergedKV"} ->
                       /\ PulledOnce(m'.x, args'.x)
                       /\ IF FailsAtOnce(args'.x) THEN NotCalled(m'.y)
                          ELSE PulledOnce(m'.y, args'.y)
                [] kind' = "WrapKVSIter" ->
                       PulledOnce(m'.y, args'.y) /\ NotCalled(m'.x)
                [] OTHER ->
                       PulledOnce(m'.x, args'.x) /\ NotCalled(m'.y)
         ELSE /\ m'.x.probes = m.x.probes /\ m'.x.reads = m.x.reads
              /\ m'.y.probes = m.y.probes /\ m'.y.reads = m.y.reads]_vars

\* a union whose first input failed on the constructor's pull, so that the
\* second was not called, asked HasNext before its first Next
C11_SkippedWitness ==
    /\ pc = "built" /\ kind = "UnionKVIter" /\ out = <<>>
    /\ has = <<TRUE>>
    /\ FailsAtOnce(args.x) /\ args.y.items # <<>>
    /\ m.x.reads = 1 /\ NotCalled(m.y)

\* a union whose constructor pulled one pair from each child, asked HasNext
\* before its first Next
C11_Witness ==
    /\ pc = "built" /\ kind = "UnionKVIter" /\ out = <<>>
    /\ has = <<TRUE>>
    /\ m.x.reads = 1 /\ m.y.reads = 1

\* C12: on UnionKVIter, MergedKV, WrapKVSIter and WrapKVIter a HasNext call
\* changes no field of the iterator and calls nothing on a child, and
\* consecutive HasNext calls without an intervening Next return the same value.
C12_HasNextPure ==
    [][(pc = "built" /\ kind \in Composite /\ out' = out) =>
         /\ m' = m
         /\ has # <<>> => has' = has]_vars

\* HasNext asked on a merge whose limit has run out with a pair of each input
\* still buffered
C12_Witness ==
    /\ kind = "MergedKV" /\ has = <<FALSE>>
    /\ Len(out) >= 1
    /\ m.limit = 0 /\ m.xHasNext /\ m.yHasNext

RECURSIVE LeafCount(_)
\* the leaf streams under stream l
LeafCount(l) ==
    IF l.nil THEN 0
    ELSE IF l.kind = "leaf" THEN 1
    ELSE LeafCount(l.it.x) + LeafCount(l.it.y)

RECURSIVE ClosesAre(_, _)
\* every leaf under l that has a Close method has had n Close calls, every
\* other leaf none
ClosesAre(l, n) ==
    IF l.nil THEN TRUE
    ELSE IF l.kind = "leaf" THEN l.closes = (IF l.closer THEN n ELSE 0)
    ELSE ClosesAre(l.it.x, n) /\ ClosesAre(l.it.y, n)

\* C13: every leaf handed to the constructors is held under the composite
\* they return, no leaf is closed before the consumer's Close, and one Close
\* call on a composite of UnionKV, MergeKVS, WrapKVS, WrapKV and
\* TransformKV2U64 nested up to MaxDepth, made in any iteration state, calls
\* Close exactly once on every leaf that has a Close method and leaves the
\* other leaves alone.
C13_CloseForwarding ==
    /\ pc \in {"built", "closed"} =>
        LeafCount(m.x) + LeafCount(m.y) = LeafCount(args.x) + LeafCount(args.y)
    /\ pc = "built" => (ClosesAre(m.x, 0) /\ ClosesAre(m.y, 0))
    /\ pc = "closed" => (ClosesAre(m.x, 1) /\ ClosesAre(m.y, 1))

\* UnionKV(WrapKV(MergeKVS(a, b)), WrapKV(WrapKVS(c))), b without a Close
\* method, closed after a pull that made a fail
C13_Witness ==
    /\ pc = "closed" /\ kind = "UnionKVIter"
    /\ m.x.kind = "WrapKVIter" /\ m.x.it.x.kind = "MergedKV"
    /\ m.y.kind = "WrapKVIter" /\ m.y.it.x.kind = "WrapKVSIter"
    /\ ~m.x.it.x.it.y.closer /\ m.x.it.x.it.x.closer
    /\ m.x.it.x.it.x.closes = 1 /\ m.y.it.x.it.y.closes = 1
    /\ Len(out) >= 1 /\ m.err = "ErrX"

\* C14 as stated: a Next call on a UnionKVIter, MergedKV, WrapKVSIter or
\* WrapKVIter made while HasNext reports false returns an error; it never
\* returns a nil error together with a buffered or already emitted key/value.
C14_Original ==
    kind \in Composite =>
        \A i \in 1..Len(out) : ~out[i].ok => out[i].err # NoErr

\* C15 as stated: once HasNext of a UnionKVIter, MergedKV, WrapKVSIter or
\* WrapKVIter is false, it is false after every later call of the consumer.
C15_Original ==
    [][(pc = "built" /\ kind \in Composite /\ ~HasNext(kind, m)) =>
         ~HasNext(kind', m')]_vars

\* the failing input of C15: a union of limit 0 over x of two pairs, after
\* one Next call made while HasNext was false; x's second pair is buffered
\* and the limit is -1, so that HasNext is true
C15_Revived ==
    /\ pc = "built" /\ kind = "UnionKVIter" /\ args.limit = 0
    /\ Len(args.x.items) = 2 /\ args.y.items = <<>>
    /\ args.x.fail = NoErr /\ args.y.fail = NoErr
    /\ Len(out) = 1 /\ ~out[1].ok
    /\ m.limit = -1 /\ m.xHasNext
    /\ HasNext(kind, m)

\* the roots of the block with root r and of the blocks above it
AncestorRoots(r) == {a \in 1..NumBlocks : \E k \in 0..NumBlocks : r \div (2 ^ k) = a}

\* the roots of the block with root r and of the blocks below it
DescendantRoots(r) == {d \in 1..NumBlocks : r \in AncestorRoots(d)}

\* C16: after ValidateBlock(b) of a block b that is in the store, IsOptimistic
\* is false for the root of b and of every ancestor of b that was in the
\* store, and every other entry is still in the store, unchanged.
C16_Original ==
    (op.name = "ValidateBlock" /\ op.block.HashSSZ \in DOMAIN op.before) =>
        /\ \A r \in AncestorRoots(op.block.HashSSZ) :
               ~IsOptimistic(optimisticRoots, r)
        /\ \A r \in DOMAIN op.before \ AncestorRoots(op.block.HashSSZ) :
               r \in DOMAIN optimisticRoots /\ optimisticRoots[r].parent = op.before[r].parent

\* C17: after InvalidateBlock(b) of a block b that is in the store, whatever
\* the order the blocks were added in, IsOptimistic is false for the root of
\* b and of every descendant of b that was in the store.
C17_Original ==
    (op.name = "InvalidateBlock" /\ op.block.HashSSZ \in DOMAIN op.before) =>
        \A r \in DescendantRoots(op.block.HashSSZ) :
            ~IsOptimistic(optimisticRoots, r)

\* the elements a leaf has handed out (a read past them returns its error)
ElementsPulled(l) == Min(l.reads, Len(l.items))

\* the Next calls of the consumer that returned no error
Emissions == Cardinality({i \in 1..Len(out) : out[i].err = NoErr})

RECURSIVE Consumed(_, _, _, _, _, _)
\* <<i, j>>: how many elements of xs and of ys are emitted or shadowed once a
\* union (kd = "UnionKVIter") or a merge of xs and ys has returned n more
\* results, i of xs and j of ys being emitted or shadowed before them
Consumed(kd, xs, ys, i, j, n) ==
    IF n = 0 THEN <<i, j>>
    ELSE IF i < Len(xs) /\ j < Len(ys)
         THEN IF bytesCompare(xs[i + 1].k, ys[j + 1].k) < 0
              THEN Consumed(kd, xs, ys, i + 1, j, n - 1)
              ELSE IF bytesCompare(xs[i + 1].k, ys[j + 1].k) > 0
              THEN Consumed(kd, xs, ys, i, j + 1, n - 1)
              ELSE IF kd = "UnionKVIter"
              THEN Consumed(kd, xs, ys, i + 1, j + 1, n - 1)
              ELSE Consumed(kd, xs, ys, i + 1, j, n - 1)
    ELSE IF i < Len(xs) THEN Consumed(kd, xs, ys, i + 1, j, n - 1)
    ELSE IF j < Len(ys) THEN Consumed(kd, xs, ys, i, j + 1, n - 1)
    ELSE <<i, j>>

\* elements pulled from x, and from y, that are neither emitted nor shadowed
LookaheadX ==
    ElementsPulled(m.x) - Consumed(kind, m.x.items, m.y.items, 0, 0, Emissions)[1]

LookaheadY ==
    ElementsPulled(m.y) - Consumed(kind, m.x.items, m.y.items, 0, 0, Emissions)[2]

Merging == pc = "built" /\ kind \in {"UnionKVIter", "MergedKV"}

\* C18 as stated: per child, the elements pulled minus the elements emitted or
\* shadowed are 0 or 1, and 1 exactly when the child's has-next flag is set
\* and no error is latched.
C18_Original ==
    Merging =>
        /\ LookaheadX \in {0, 1} /\ LookaheadY \in {0, 1}
        /\ LookaheadX = 1 <=> (m.xHasNext /\ m.err = NoErr)
        /\ LookaheadY = 1 <=> (m.yHasNext /\ m.err = NoErr)

\* C18: per child, the elements pulled minus the elements emitted or shadowed
\* are 0 or 1; they are 1 only when the child's has-next flag is set, and as
\* long as no error is latched they are 1 whenever the flag is set.
C18_SingleLookahead ==
    Merging =>
        /\ LookaheadX \in {0, 1} /\ LookaheadY \in {0, 1}
        /\ LookaheadX = 1 => m.xHasNext
        /\ LookaheadY = 1 => m.yHasNext
        /\ m.err = NoErr => (m.xHasNext => LookaheadX = 1) /\ (m.yHasNext => LookaheadY = 1)

\* the limit is reached after a pair was emitted, one element of each child
\* read and left unconsumed
C18_Witness ==
    /\ Merging /\ Legal /\ m.limit = 0 /\ Emissions >= 1
    /\ LookaheadX = 1 /\ LookaheadY = 1

\* an element of x is buffered while the error of y is latched
C18_LatchedWitness ==
    /\ Merging /\ m.err = "ErrY" /\ LookaheadX = 1 /\ m.xHasNext

\* the step is a Next call of the consumer on a UnionKVIter or a MergedKV
MergingNext == Merging /\ Len(out') = Len(out) + 1

\* the step advances x: one HasNext call on it and at most one Next call
AdvancesX == m'.x.probes = m.x.probes + 1 /\ m'.x.reads - m.x.reads \in {0, 1}

AdvancesY == m'.y.probes = m.y.probes + 1 /\ m'.y.reads - m.y.reads \in {0, 1}

\* the step calls nothing on x and leaves its buffered pair as it is
LeavesX ==
    /\ m'.x = m.x /\ m'.xHasNext = m.xHasNext
    /\ m'.xNextK = m.xNextK /\ m'.xNextV = m.xNextV /\ m'.xStep = m.xStep

LeavesY ==
    /\ m'.y = m.y /\ m'.yHasNext = m.yHasNext
    /\ m'.yNextK = m.yNextK /\ m'.yNextV = m.yNextV

\* the one child a Next call advances when it does not find equal keys in a
\* UnionKVIter: the child whose buffered pair it returns
AdvancesOne ==
    IF m.xHasNext /\ m.yHasNext
    THEN IF bytesCompare(m.xNextK, m.yNextK) <= 0
         THEN AdvancesX /\ LeavesY
         ELSE AdvancesY /\ LeavesX
    ELSE IF m.xHasNext THEN AdvancesX /\ LeavesY
    ELSE AdvancesY /\ LeavesX

EqualKeys ==
    kind = "UnionKVIter" /\ m.xHasNext /\ m.yHasNext /\ bytesCompare(m.xNextK, m.yNextK) = 0

\* C19 as stated: a Next call advances only the child whose buffered pair it
\* consumed, in a UnionKVIter both children (each once) when the keys are
\* equal, and the buffered pair of a child it does not advance is unchanged.
C19_Original ==
    [][MergingNext =>
         IF m.err # NoErr THEN LeavesX /\ LeavesY
         ELSE IF EqualKeys THEN AdvancesX /\ AdvancesY
         ELSE AdvancesOne]_vars

\* C19: as above, but on equal keys y is advanced only if the pull on x
\* returned no error; if it returned one, y and its buffered pair are left.
C19_AdvanceDiscipline ==
    [][MergingNext =>
         IF m.err # NoErr THEN LeavesX /\ LeavesY
         ELSE IF EqualKeys
              THEN /\ AdvancesX
                   /\ IF m'.x.reads > Len(m'.x.items) THEN LeavesY ELSE AdvancesY
              ELSE AdvancesOne]_vars

\* one Next call on a UnionKVIter that found equal keys has pulled x and y
C19_Witness ==
    /\ pc = "built" /\ kind = "UnionKVIter" /\ Len(out) = 1 /\ Legal
    /\ Len(m.x.items) = 2 /\ Len(m.y.items) = 2
    /\ m.x.items[1].k = m.y.items[1].k
    /\ m.x.reads = 2 /\ m.y.reads = 2

\* C20: a Next call on a UnionKVIter, MergedKV, WrapKVSIter or WrapKVIter that
\* returns an error returns zero values with it, the error a child had
\* returned before the call; a call made while HasNext is true that returns no
\* error returns an element; and while an error is latched HasNext is true.
C20_ErrorDelivery ==
    kind \in Composite =>
        /\ \A i \in 1..Len(out) :
               /\ out[i].err # NoErr =>
                      /\ out[i].k = NilBytes /\ out[i].v = NilBytes /\ out[i].s = 0
                      /\ out[i].err = out[i].errBefore
               /\ (out[i].ok /\ out[i].err = NoErr) => out[i].k \in Keys
        /\ (pc = "built" /\ m.err # NoErr) => HasNext(kind, m)

\* the consumer was handed the latched error twice, its limit used up, and
\* HasNext is still true
C20_Witness ==
    /\ pc = "built" /\ kind = "UnionKVIter" /\ Legal /\ Len(out) = 3
    /\ out[1].err = NoErr /\ out[2].err = "ErrY" /\ out[3].err = "ErrY"
    /\ m.limit = 0
    /\ HasNext(kind, m)

\* the results so far are the elements of leaf l in its order, each with its
\* key, its value and step 0, and all of them once HasNext is false
Faithful(l) ==
    /\ Len(out) <= Len(l.items)
    /\ \A i \in 1..Len(out) :
           /\ out[i].k = l.items[i].k /\ out[i].v = l.items[i].v
           /\ out[i].s = 0 /\ out[i].err = NoErr
    /\ (pc = "built" /\ ~HasNext(kind, m)) => Len(out) = Len(l.items)

PlainLeaf(l) == l.kind = "leaf" /\ ~l.nil /\ l.fail = NoErr

\* the same for a leaf that may fail after its elements: the elements first,
\* then its error
FaithfulUntilError(l) ==
    /\ \A i \in 1..Len(out) :
           IF i <= Len(l.items)
           THEN /\ out[i].k = l.items[i].k /\ out[i].v = l.items[i].v
                /\ out[i].s = 0 /\ out[i].err = NoErr
           ELSE out[i].err = l.fail /\ l.fail # NoErr
    /\ (pc = "built" /\ ~HasNext(kind, m)) => Len(out) = Len(l.items)

\* C21: WrapKVS(y) of an error-free pair stream y yields the keys and values
\* of y in the order of y, each with step 0; WrapKV(x) of a triple stream x
\* the keys and values of x in the order of x, without the step (and then
\* the error of x, if it has one); WrapKV(WrapKVS(y)) the sequence of y.
C21_AdaptersFaithful ==
    /\ (ctor = "WrapKVS" /\ PlainLeaf(args.y)) => Faithful(args.y)
    /\ (ctor = "WrapKV" /\ args.x.kind = "leaf" /\ ~args.x.nil) =>
           FaithfulUntilError(args.x)
    /\ (ctor = "WrapKV" /\ args.x.kind = "WrapKVSIter" /\ PlainLeaf(args.x.it.y)) =>
           Faithful(args.x.it.y)

\* WrapKV(WrapKVS(y)) drained, y of two elements
C21_Witness ==
    /\ pc = "built" /\ ctor = "WrapKV" /\ args.x.kind = "WrapKVSIter"
    /\ PlainLeaf(args.x.it.y) /\ Len(args.x.it.y.items) >= 2
    /\ Len(out) = Len(args.x.it.y.items) /\ ~HasNext(kind, m)

\* how often root r is on the children list cs
Times(r, cs) == Cardinality({i \in 1..Len(cs) : cs[i] = r})

\* the latest call was AddOptimisticCandidate
Added == op.name = "AddOptimisticCandidate"

\* C22: after AddOptimisticCandidate(b) IsOptimistic is true for the root of
\* b; if the root was in the store the map is as before, with no second
\* entry of the root on a children list; if it was not, the block is stored
\* with its parent root and no children, it is appended to its parent's
\* children list exactly if the parent was in the store, and nothing else
\* changes.
C22_AddIdempotent ==
    Added =>
        LET root == op.block.HashSSZ
            parentRoot == op.block.ParentRoot
        IN  /\ IsOptimistic(optimisticRoots, root)
            /\ root \in DOMAIN op.before => optimisticRoots = op.before
            /\ \A r \in DOMAIN optimisticRoots : Times(root, optimisticRoots[r].children) <= 1
            /\ root \notin DOMAIN op.before =>
                   /\ DOMAIN optimisticRoots = DOMAIN op.before \cup {root}
                   /\ optimisticRoots[root] = [parent |-> parentRoot, children |-> <<>>]
                   /\ \A r \in DOMAIN op.before :
                          /\ optimisticRoots[r].parent = op.before[r].parent
                          /\ optimisticRoots[r].children =
                                 IF r = parentRoot
                                 THEN Append(op.before[r].children, root)
                                 ELSE op.before[r].children

\* a block is added again while it is on the children list of its parent
C22_Witness ==
    /\ Added
    /\ op.block.HashSSZ \in DOMAIN op.before
    /\ op.block.ParentRoot \in DOMAIN op.before
    /\ Times(op.block.HashSSZ, op.before[op.block.ParentRoot].children) = 1

\* a block is added after its child: the child is on no children list
C22_UnlinkedWitness ==
    /\ Added
    /\ op.block.HashSSZ \notin DOMAIN op.before
    /\ \E r \in DOMAIN op.before : op.before[r].parent = op.block.HashSSZ
    /\ optimisticRoots[op.block.HashSSZ].children = <<>>

\* C23 as stated: no goroutine reads or writes the map while another
\* goroutine is writing it.
C23_Original ==
    \A t \in Goroutines, u \in Goroutines :
        (t # u /\ Writing(t)) => ~Accessing(u)

\* The steps of Run inside its loop, before it returns
InLoop == {"top", "fetching", "fetched", "adding", "sleeping"}

\* C24 as stated: every fetch asks for the events from one above the ID of
\* the last event of the latest non-empty batch (the latest stored ID before
\* any); Ready() is false until a fetch has returned without error, and from
\* then on true exactly if the latest such fetch returned no events; the loop
\* is left only with the context's error, found at the top of an iteration,
\* with the error of the fetch or with the error of AddEvents.
C24_Original ==
    /\ bridge.pc = "fetching" => bridge.fromId = bridge.lastSeen + 1
    /\ bridge.lastFetch = "none" => ~Bridge_Ready(bridge)
    /\ bridge.lastFetch # "none" => (Bridge_Ready(bridge) <=> bridge.lastFetch = "empty")
    /\ (bridge.pc = "returned" /\ bridge.cause # "db") =>
           \/ bridge.ret = "ctx.Err" /\ bridge.cause = "cancelled" /\ bridge.cancelled
           \/ bridge.ret = "ErrFetch" /\ bridge.cause = "fetch"
           \/ bridge.ret = "ErrAdd" /\ bridge.cause = "add"
    /\ bridge.pc \in InLoop => bridge.cause = "none"

\* C24: every fetch asks for the events from one above the ID of the last
\* event of the latest non-empty batch (the latest stored ID before any);
\* Ready() is false until Run has assigned b.ready after a fetch that
\* returned without error, and from then on true exactly if the latest fetch
\* Run has assigned it after returned no events; that fetch is the latest
\* one that returned without error, except between the return of a fetch and
\* the assignment that follows it, where Ready() still answers for the fetch
\* before; the loop is left only with the context's error, found at the top
\* of an iteration, with the error of the fetch or with the error of
\* AddEvents.
C24_SyncLoop ==
    /\ bridge.pc = "fetching" => bridge.fromId = bridge.lastSeen + 1
    /\ bridge.handled = "none" => ~Bridge_Ready(bridge)
    /\ bridge.handled # "none" => (Bridge_Ready(bridge) <=> bridge.handled = "empty")
    /\ bridge.pc # "fetched" => bridge.handled = bridge.lastFetch
    /\ (bridge.pc = "returned" /\ bridge.cause # "db") =>
           \/ bridge.ret = "ctx.Err" /\ bridge.cause = "cancelled" /\ bridge.cancelled
           \/ bridge.ret = "ErrFetch" /\ bridge.cause = "fetch"
           \/ bridge.ret = "ErrAdd" /\ bridge.cause = "add"
    /\ bridge.pc \in InLoop => bridge.cause = "none"

\* AddEvents is under way on a batch of two events whose last ID is not the
\* largest, fetched after an empty batch: Ready() is false, lastEventID
\* still that of before the batch
C24_AddingWitness ==
    /\ bridge.pc = "adding" /\ bridge.events = <<2, 1>>
    /\ bridge.handled = "events" /\ ~Bridge_Ready(bridge)
    /\ bridge.lastEventID = 0 /\ bridge.fetches = 2

\* the third fetch, after a batch of two events whose last ID is not the
\* largest, and an empty batch after it
C24_Witness ==
    /\ bridge.pc = "fetching" /\ bridge.fetches = 3
    /\ bridge.lastFetch = "empty" /\ Bridge_Ready(bridge)
    /\ bridge.lastSeen = 1 /\ bridge.fromId = 2

\* the context was cancelled during a fetch and Run returned its error at
\* the top of the next iteration, not ready
C24_CancelWitness ==
    /\ bridge.pc = "returned" /\ bridge.ret = "ctx.Err"
    /\ bridge.fetches = 2 /\ bridge.lastFetch = "events" /\ ~Bridge_Ready(bridge)

\* the five RPC ports of a node
RPCPorts(node) ==
    {node.HttpPort, node.WSPort, node.GRPCPort, node.TCPPort, node.AuthRpcPort}

\* the port a private API address names
PrivateApiPort(addr) == strconvAtoi(netSplitHostPort(addr).port).n

\* the nodes configure returned nil for
Configured == {e \in devnet.nodes : e.err = NoErr}

\* C25: a node configured under number n has HttpPort = base.HttpPort + 5n and
\* WSPort, GRPCPort, TCPPort, AuthRpcPort the next four ports, five different
\* ports; the ports of two nodes with different numbers are disjoint; Port is
\* base.Port + n, and the private API address has the host of the base's and
\* its port plus n.
C25_PortAssignment ==
    /\ \A e \in Configured :
        /\ e.node.HttpPort = devnet.base.HttpPort + 5 * e.n
        /\ e.node.WSPort = e.node.HttpPort + 1
        /\ e.node.GRPCPort = e.node.HttpPort + 2
        /\ e.node.TCPPort = e.node.HttpPort + 3
        /\ e.node.AuthRpcPort = e.node.HttpPort + 4
        /\ Cardinality(RPCPorts(e.node)) = 5
        /\ e.node.Port = devnet.base.Port + e.n
        /\ netSplitHostPort(e.node.PrivateApiAddr).err = NoErr
        /\ netSplitHostPort(e.node.PrivateApiAddr).host =
               netSplitHostPort(devnet.base.PrivateApiAddr).host
        /\ PrivateApiPort(e.node.PrivateApiAddr) =
               PrivateApiPort(devnet.base.PrivateApiAddr) + e.n
    /\ \A e \in Configured, f \in Configured :
        e.n # f.n => RPCPorts(e.node) \cap RPCPorts(f.node) = {}

\* nodes 0, 1 and 2 configured from a base whose private API port gains a
\* digit
C25_Witness ==
    /\ Cardinality(Configured) = 3
    /\ devnet.base.PrivateApiAddr = <<"h", ":", "9", "8">>
    /\ \E e \in Configured : e.n = 2 /\ e.node.PrivateApiAddr = <<"h", ":", "1", "0", "0">>

====
